---- MODULE Spec2Model ----
(***************************************************************************)
(* A model of the Masyu solver of src/python/solve.py: the per-cell edge   *)
(* lattice (CellLine), the Board with its propagation and its incremental  *)
(* line-segment index, and the deduction rules that drive them.            *)
(*                                                                         *)
(* Seven specifications share the variables:                               *)
(*   SpecCell   one CellLine driven by its four operations;                *)
(*   Spec       one Board driven by its four public mutators;              *)
(*   SpecTrack  the same on larger boards, for the segment index;          *)
(*   SpecSolve  the solver run on a small puzzle: the pre-pass, the rules, *)
(*              then the search over the tree of hypotheses;               *)
(*   SpecSearch the same run on chosen larger puzzles, for the search.     *)
(*   SpecDeep   the same run for more turns, for the tree below its top;   *)
(*   SpecRules  one Board driven by a mutator and then by the rules.       *)
(* FairSearch is SpecSearch with the fairness of a run that nothing        *)
(* interrupts, for the termination of solve.                               *)
(***************************************************************************)
EXTENDS Integers, Sequences, FiniteSets, TLC

VARIABLES
    cell,       \* SpecCell: the CellLine the caller holds
    cell_hist,  \* SpecCell: the successful operations applied since the empty CellLine
    cell_last,  \* SpecCell: the last operation attempted, and how it ended
    board,      \* Spec, SpecTrack, SpecSolve: the Board the caller holds
    last,       \* Spec, SpecSolve: the last mutator (or rule) attempted, and how it ended
    steps,      \* Spec, SpecTrack: the calls so far that returned a new board
    order,      \* the iteration order of the run's Direction sets (hash order)
    pc,         \* which specification runs, and the solver's position in SpecSolve
    tree        \* SpecSolve, SpecSearch: the Refs and PossibilityPairs solve has made

vars == <<cell, cell_hist, cell_last, board, last, steps, order, pc, tree>>

----------------------------------------------------------------------------
(* Bounds of the model.                                                    *)

MaxW == 3          \* widest board
MaxH == 3          \* tallest board
MaxCells == 6      \* most cells on a board (width * height)
MaxPearls == 3     \* most pearls on a puzzle of SpecSolve
TrackW == 4        \* widest board of SpecTrack
TrackH == 4        \* tallest board of SpecTrack
TrackCells == 8    \* most cells on a board of SpecTrack
MaxSteps == 3      \* most successful mutator calls on a board of Spec and SpecTrack
MaxOps == 3        \* most successful operations on the CellLine of SpecCell
MaxExplores == 30  \* most calls of explore in a run of SpecSolve and SpecSearch
MaxPrepare == 1    \* most mutator calls before the rules in SpecRules
MaxRules == 3      \* most calls in a run of SpecRules
MaxDeep == 130     \* most turns of explore in a run of SpecDeep

----------------------------------------------------------------------------
(* Direction (src/python/solve.py:19-39).                                  *)

Direction == {"Up", "Right", "Down", "Left"}

None == "None"

DirValue(d) ==
    CASE d = "Up" -> <<0, -1>>
      [] d = "Right" -> <<1, 0>>
      [] d = "Down" -> <<0, 1>>
      [] d = "Left" -> <<-1, 0>>

FromValue(v) == CHOOSE d \in Direction : DirValue(d) = v

opposite(d) == FromValue(<<-DirValue(d)[1], -DirValue(d)[2]>>)

turn_right(d) == FromValue(<<-DirValue(d)[2], DirValue(d)[1]>>)

turn_left(d) == FromValue(<<DirValue(d)[2], -DirValue(d)[1]>>)

move(d, c) == <<c[1] + DirValue(d)[1], c[2] + DirValue(d)[2]>>

(* The order in which a set of Directions is iterated: Python iterates a   *)
(* set in hash order, and an Enum member hashes by its name, so the order  *)
(* is fixed within a run and differs between runs.                         *)
EnumOrder == <<"Up", "Right", "Down", "Left">>

Reverse(s) == [i \in 1..Len(s) |-> s[Len(s) + 1 - i]]

DirOrders == {EnumOrder, Reverse(EnumOrder)}

Iter(S) == SelectSeq(order, LAMBDA d : d \in S)

----------------------------------------------------------------------------
(* CellLine (src/python/solve.py:84-219).  An operation returns its result *)
(* with a tag: "ok" (a CellLine is returned), "contradiction"              *)
(* (ContradictionException) or "assertion" (AssertionError).               *)

CellLine(is, cannot) == [is_set |-> is, cannot_set |-> cannot]

EmptyCell == CellLine({}, {})

Return(c) == [tag |-> "ok", cell |-> c]

Raise(c) == [tag |-> "contradiction", cell |-> c]

Failed(c) == [tag |-> "assertion", cell |-> c]

set_direction_unchecked(c, direction) ==
    IF direction \in c.is_set THEN Return(c)
    ELSE LET is_set == c.is_set \cup {direction} IN
         IF Cardinality(is_set) = 2
         THEN Return(CellLine(is_set, Direction \ is_set))
         ELSE IF Cardinality(c.cannot_set) = 2
         THEN Return(CellLine(Direction \ c.cannot_set, c.cannot_set))
         ELSE Return(CellLine(is_set, c.cannot_set))

set_direction_swapped(c, direction) ==
    IF direction \in c.cannot_set THEN Return(c)
    ELSE IF direction \in c.is_set THEN Raise(c)
    ELSE LET is_set == c.is_set \cup {direction} IN
         IF Cardinality(is_set) = 2
         THEN Return(CellLine(is_set, Direction \ is_set))
         ELSE IF Cardinality(c.cannot_set) = 2
         THEN Return(CellLine(Direction \ c.cannot_set, c.cannot_set))
         ELSE Return(CellLine(is_set, c.cannot_set))

set_direction_uncompleted(c, direction) ==
    IF direction \in c.is_set THEN Return(c)
    ELSE IF direction \in c.cannot_set THEN Raise(c)
    ELSE LET is_set == c.is_set \cup {direction} IN
         IF Cardinality(c.cannot_set) = 2
         THEN Return(CellLine(Direction \ c.cannot_set, c.cannot_set))
         ELSE Return(CellLine(is_set, c.cannot_set))

set_direction(c, direction) ==
    IF direction \in c.is_set THEN Return(c)
    ELSE IF direction \in c.cannot_set THEN Raise(c)
    ELSE LET is_set == c.is_set \cup {direction} IN
         IF Cardinality(is_set) = 2
         THEN Return(CellLine(is_set, Direction \ is_set))
         ELSE IF Cardinality(c.cannot_set) = 2
         THEN Return(CellLine(Direction \ c.cannot_set, c.cannot_set))
         ELSE Return(CellLine(is_set, c.cannot_set))

disallow_direction_unpromoted(c, direction) ==
    IF direction \in c.cannot_set THEN Return(c)
    ELSE IF direction \in c.is_set THEN Raise(c)
    ELSE LET cannot_set == c.cannot_set \cup {direction} IN
         IF Cardinality(cannot_set) = 2 /\ Cardinality(c.is_set) = 1
         THEN Return(CellLine(Direction \ cannot_set, cannot_set))
         ELSE Return(CellLine(c.is_set, cannot_set))

disallow_direction(c, direction) ==
    IF direction \in c.cannot_set THEN Return(c)
    ELSE IF direction \in c.is_set THEN Raise(c)
    ELSE LET cannot_set == c.cannot_set \cup {direction} IN
         IF Cardinality(cannot_set) = 2 /\ Cardinality(c.is_set) = 1
         THEN Return(CellLine(Direction \ cannot_set, cannot_set))
         ELSE IF Cardinality(cannot_set) = 3
         THEN Return(CellLine(c.is_set, Direction))
         ELSE Return(CellLine(c.is_set, cannot_set))

(* `one, other = self.is_set; one.opposite() != other` *)
IsOppositePair(S) == \A one \in S : opposite(one) \in S

get_through_unchecked(c) ==
    LET num_set == Cardinality(c.is_set)
    IN  IF num_set = 2 THEN Return(c)
        ELSE IF num_set = 1
        THEN set_direction(c, opposite(CHOOSE one \in c.is_set : TRUE))
        ELSE IF Cardinality(c.cannot_set) \in {1, 2}
        THEN Return(CellLine(Direction \ c.cannot_set, c.cannot_set))
        ELSE Return(c)

get_through(c) ==
    LET num_set == Cardinality(c.is_set)
        num_cannot_set == Cardinality(c.cannot_set)
    IN  IF num_set = 2
        THEN IF ~IsOppositePair(c.is_set) THEN Raise(c) ELSE Return(c)
        ELSE IF num_set = 1
        THEN set_direction(c, opposite(CHOOSE one \in c.is_set : TRUE))
        ELSE IF num_set # 0 THEN Failed(c)
        ELSE IF num_cannot_set = 1
        THEN LET one == CHOOSE d \in c.cannot_set : TRUE
                 cannot_set == {one, opposite(one)}
             IN  Return(CellLine(Direction \ cannot_set, cannot_set))
        ELSE IF num_cannot_set = 2
        THEN LET is_set == Direction \ c.cannot_set
             IN  IF ~IsOppositePair(is_set) THEN Raise(c)
                 ELSE Return(CellLine(is_set, c.cannot_set))
        ELSE IF num_cannot_set = 4 THEN Raise(c)
        ELSE IF num_cannot_set # 0 THEN Failed(c)
        ELSE Return(c)

get_bent_straight(c) == get_through(c)

get_bent(c) ==
    LET num_set == Cardinality(c.is_set)
        num_cannot_set == Cardinality(c.cannot_set)
    IN  IF num_set = 2
        THEN IF IsOppositePair(c.is_set) THEN Raise(c) ELSE Return(c)
        ELSE IF num_set = 1
        THEN disallow_direction(c, opposite(CHOOSE one \in c.is_set : TRUE))
        ELSE IF num_cannot_set = 1
        THEN set_direction(c, opposite(CHOOSE one \in c.cannot_set : TRUE))
        ELSE IF num_cannot_set = 2
        THEN LET is_set == Direction \ c.cannot_set
             IN  IF IsOppositePair(is_set) THEN Raise(c)
                 ELSE Return(CellLine(is_set, c.cannot_set))
        ELSE IF num_cannot_set = 4 THEN Raise(c)
        ELSE IF num_cannot_set # 0 THEN Failed(c)
        ELSE Return(c)

is_done(c) == Cardinality(c.is_set) + Cardinality(c.cannot_set) = 4

could_set(c) == (Direction \ c.is_set) \ c.cannot_set

(* `other.pop() if other else None`: with two elements left the pop takes  *)
(* the first in iteration order.                                           *)
other_out(c, direction) ==
    LET other == c.is_set \ {direction}
    IN  IF other = {} THEN None ELSE Iter(other)[1]

----------------------------------------------------------------------------
(* LineSegment and the segment tracker (src/python/solve.py:222-342).      *)

LineSegment(start, start_direction, end, end_direction, contains) ==
    [start |-> start, start_direction |-> start_direction,
     end |-> end, end_direction |-> end_direction, contains |-> contains]

other_end(seg, coord) ==
    IF coord = seg.start
    THEN [coord |-> seg.end, dir |-> seg.end_direction]
    ELSE [coord |-> seg.start, dir |-> seg.start_direction]

(* coord_lookup of _extend_line_segments: a later segment of the list      *)
(* overwrites an earlier one under the same coordinate.                    *)
NoSegment == [start |-> <<-1, -1>>, start_direction |-> None,
              end |-> <<-1, -1>>, end_direction |-> None, contains |-> {}]

LastOf(line_segments, hits) ==
    IF hits = {} THEN NoSegment
    ELSE line_segments[CHOOSE i \in hits : \A j \in hits : j <= i]

coord_lookup(line_segments, coord) ==
    LastOf(line_segments,
           {i \in 1..Len(line_segments) :
               coord \in {line_segments[i].start, line_segments[i].end}})

(* One walk of _extend_line_segments along _loop_path, the generator run   *)
(* one step per recursion: w.pos and w.direction are the generator's       *)
(* position, w.coord and w.next_dir the loop variables after the last      *)
(* step.  Ends "loop" when the walk reaches the segment it started from.   *)
WalkTo(w, coord, next_dir, direction) ==
    [w EXCEPT !.coord = coord, !.next_dir = next_dir, !.pos = coord,
              !.direction = direction]

WalkMerge_ends_only(w, merge_seg, far, cell_lines) ==
    WalkTo([w EXCEPT !.seen_segs = @ \cup {merge_seg}],
           far.coord, far.dir, other_out(cell_lines[far.coord], far.dir))

(* `quick consume the line segment`: jump to the far end of merge_seg.     *)
WalkMerge(w, merge_seg, far, cell_lines) ==
    WalkTo([w EXCEPT !.seen_segs = @ \cup {merge_seg},
                     !.loop = @ \cup merge_seg.contains],
           far.coord, far.dir, other_out(cell_lines[far.coord], far.dir))

WalkStep(w, coord, next_dir, merge_seg, segment, cell_lines) ==
    IF merge_seg = NoSegment
    THEN WalkTo([w EXCEPT !.loop = @ \cup {coord}], coord, next_dir,
                other_out(cell_lines[coord], next_dir))
    ELSE IF merge_seg = segment THEN [w EXCEPT !.tag = "loop"]
    ELSE WalkMerge(w, merge_seg, other_end(merge_seg, coord), cell_lines)

RECURSIVE ExtendWalk(_, _, _, _)
ExtendWalk(w, segment, line_segments, cell_lines) ==
    IF w.tag # "ok" \/ w.direction = None THEN w
    ELSE IF move(w.direction, w.pos) \notin DOMAIN cell_lines
    THEN [w EXCEPT !.tag = "keyerror"]
    ELSE ExtendWalk(WalkStep(w, move(w.direction, w.pos), opposite(w.direction),
                             coord_lookup(line_segments, move(w.direction, w.pos)),
                             segment, cell_lines),
                    segment, line_segments, cell_lines)

(* One end of a segment: nothing when the end cell still has one line,     *)
(* else the walk from it; the new end is recorded in changed_ends.         *)
EndWalked(e, side, w) ==
    [tag |-> w.tag, loop |-> w.loop, seen_segs |-> w.seen_segs,
     seg |-> IF side = "start"
             THEN [e.seg EXCEPT !.start = w.coord, !.start_direction = w.next_dir]
             ELSE [e.seg EXCEPT !.end = w.coord, !.end_direction = w.next_dir],
     changed_ends |-> TRUE]

StartWalk(e, coord, next_dir) ==
    [tag |-> "ok", pos |-> coord, direction |-> next_dir, coord |-> coord,
     next_dir |-> next_dir, loop |-> e.loop, seen_segs |-> e.seen_segs]

ExtendEnd(e, side, coord, segment_direction, segment, line_segments, cell_lines) ==
    IF e.tag # "ok" \/ Cardinality(cell_lines[coord].is_set) = 1 THEN e
    ELSE EndWalked(e, side,
                   ExtendWalk(StartWalk(e, coord,
                                        other_out(cell_lines[coord], segment_direction)),
                              segment, line_segments, cell_lines))

ExtendBoth(st, segment, line_segments, cell_lines) ==
    ExtendEnd(ExtendEnd([tag |-> "ok", loop |-> segment.contains,
                         seen_segs |-> st.seen_segs \cup {segment},
                         seg |-> segment, changed_ends |-> FALSE],
                        "start", segment.start, segment.start_direction,
                        segment, line_segments, cell_lines),
              "end", segment.end, segment.end_direction,
              segment, line_segments, cell_lines)

(* new_segs.append(attr.evolve(segment, contains=loop, **changed_ends)     *)
(*                 if changed_ends else segment)                           *)
Extended(st, segment, e) ==
    IF e.tag # "ok" THEN [st EXCEPT !.tag = e.tag, !.loop = e.loop]
    ELSE [st EXCEPT !.seen_segs = e.seen_segs,
                    !.segs = Append(@, IF e.changed_ends
                                       THEN [e.seg EXCEPT !.contains = e.loop]
                                       ELSE segment)]

RECURSIVE ExtendFrom(_, _, _, _)
ExtendFrom(i, st, line_segments, cell_lines) ==
    IF st.tag # "ok" \/ i > Len(line_segments) THEN st
    ELSE IF line_segments[i] \in st.seen_segs
    THEN ExtendFrom(i + 1, st, line_segments, cell_lines)
    ELSE ExtendFrom(i + 1,
                    Extended(st, line_segments[i],
                             ExtendBoth(st, line_segments[i], line_segments, cell_lines)),
                    line_segments, cell_lines)

_extend_line_segments(line_segments, cell_lines) ==
    ExtendFrom(1, [tag |-> "ok", segs |-> <<>>, loop |-> {}, seen_segs |-> {}],
               line_segments, cell_lines)

(* The backward walk of _discover_line_segments: "loop" when it comes back *)
(* to a coordinate already in the loop.                                    *)
RECURSIVE BackWalk(_, _)
BackWalk(w, cell_lines) ==
    IF w.direction = None THEN w
    ELSE IF move(w.direction, w.pos) \notin DOMAIN cell_lines
    THEN [w EXCEPT !.tag = "keyerror"]
    ELSE IF move(w.direction, w.pos) \in w.loop THEN [w EXCEPT !.tag = "loop"]
    ELSE BackWalk(WalkTo([w EXCEPT !.loop = @ \cup {move(w.direction, w.pos)}],
                         move(w.direction, w.pos), opposite(w.direction),
                         other_out(cell_lines[move(w.direction, w.pos)],
                                   opposite(w.direction))),
                  cell_lines)

(* The forward walk: it has no loop check of its own.                      *)
RECURSIVE ForwardWalk(_, _)
ForwardWalk(w, cell_lines) ==
    IF w.tag # "ok" \/ w.direction = None THEN w
    ELSE IF move(w.direction, w.pos) \notin DOMAIN cell_lines
    THEN [w EXCEPT !.tag = "keyerror"]
    ELSE ForwardWalk(WalkTo([w EXCEPT !.loop = @ \cup {move(w.direction, w.pos)}],
                            move(w.direction, w.pos), opposite(w.direction),
                            other_out(cell_lines[move(w.direction, w.pos)],
                                      opposite(w.direction))),
                     cell_lines)

(* The cells of a width x height board in the order the cell map is        *)
(* built and iterated: y outer, x inner.                                   *)
RowMajor(width, height) ==
    [i \in 1..(width * height) |-> <<(i - 1) % width, (i - 1) \div width>>]

DiscoverWalk(coord, direction, loop) ==
    [tag |-> "ok", pos |-> coord, direction |-> direction, coord |-> coord,
     next_dir |-> direction, loop |-> loop]

(* `[forward_dir] = [back_dir] = cell.is_set` with one line (no backward   *)
(* walk), else `[forward_dir, back_dir] = cell.is_set`.                    *)
Backward(coord, dirs, cell_lines) ==
    IF Len(dirs) = 1 THEN DiscoverWalk(coord, dirs[1], {coord})
    ELSE BackWalk(DiscoverWalk(coord, dirs[2], {coord}), cell_lines)

Forward(coord, dirs, b, cell_lines) ==
    IF b.tag # "ok" THEN b
    ELSE ForwardWalk(DiscoverWalk(coord, dirs[1], b.loop), cell_lines)

Discovered(st, b, f) ==
    IF b.tag # "ok" THEN [st EXCEPT !.tag = b.tag, !.loop = b.loop]
    ELSE IF f.tag # "ok" THEN [st EXCEPT !.tag = f.tag, !.loop = f.loop]
    ELSE [st EXCEPT !.seen = @ \cup f.loop,
                    !.segs = Append(@, LineSegment(b.coord, b.next_dir,
                                                   f.coord, f.next_dir, f.loop))]

DiscoverAt(st, coord, dirs, b, cell_lines) ==
    Discovered(st, b, Forward(coord, dirs, b, cell_lines))

RECURSIVE DiscoverFrom(_, _, _, _)
DiscoverFrom(i, st, coords, cell_lines) ==
    IF st.tag # "ok" \/ i > Len(coords) THEN st
    ELSE IF coords[i] \in st.seen \/ cell_lines[coords[i]].is_set = {}
    THEN DiscoverFrom(i + 1, st, coords, cell_lines)
    ELSE DiscoverFrom(i + 1,
                      DiscoverAt(st, coords[i], Iter(cell_lines[coords[i]].is_set),
                                 Backward(coords[i], Iter(cell_lines[coords[i]].is_set),
                                          cell_lines),
                                 cell_lines),
                      coords, cell_lines)

_discover_line_segments(cell_lines, seen, coords) ==
    DiscoverFrom(1, [tag |-> "ok", segs |-> <<>>, loop |-> {}, seen |-> seen],
                 coords, cell_lines)

----------------------------------------------------------------------------
(* Board (src/python/solve.py:345-464).  A mutator returns its result with *)
(* a tag: "ok" (a Board is returned), "contradiction"                      *)
(* (ContradictionException: the caller keeps the board it had), "solved"   *)
(* (SolvedException carrying a board), "assertion" or "keyerror".          *)
(* `stage` is where the call ended: "cell" (the CellLine operation at the  *)
(* first cell), "worklist" (the propagation), "segments" (the tracker      *)
(* raised LoopException, with `loop` its coordinate set) or "done";        *)
(* `cell_lines` is the cell map the call had built when it ended.          *)

WHITE == "WHITE"

BLACK == "BLACK"

Coords(width, height) == (0..(width - 1)) \X (0..(height - 1))

MkBoard(width, height, circles, cell_lines, line_segments) ==
    [width |-> width, height |-> height, circles |-> circles,
     cell_lines |-> cell_lines, line_segments |-> line_segments]

Outcome(tag, b, stage, loop, cell_lines) ==
    [tag |-> tag, board |-> b, stage |-> stage, loop |-> loop, cell_lines |-> cell_lines]

_edges_at(width, height, x, y) ==
    (IF x = 0 THEN {"Left"} ELSE {})
    \cup (IF y = 0 THEN {"Up"} ELSE {})
    \cup (IF y = height - 1 THEN {"Down"} ELSE {})
    \cup (IF x = width - 1 THEN {"Right"} ELSE {})

(* Board(width, height, circles): the defaults of cell_lines and           *)
(* line_segments.  A fresh board has no lines, so no LoopException.        *)
NewBoard(width, height, circles) ==
    LET cell_lines == [c \in Coords(width, height) |->
                          CellLine({}, _edges_at(width, height, c[1], c[2]))]
    IN  MkBoard(width, height, circles, cell_lines,
                _discover_line_segments(cell_lines, {}, RowMajor(width, height)).segs)

validate_solved_any(loop_coords, circles) ==
    \E circle_coord \in DOMAIN circles : circle_coord \in loop_coords

validate_solved(loop_coords, circles) ==
    \A circle_coord \in DOMAIN circles : circle_coord \in loop_coords

UnionAll(segs) == UNION {segs[i].contains : i \in 1..Len(segs)}

Discover_extension_only(ext, cell_lines, coords) == ext

(* The `try` of evolve: the extension, then the discovery of what it left. *)
Discover(ext, cell_lines, coords) ==
    IF ext.tag # "ok" THEN ext
    ELSE _discover_line_segments(cell_lines, UnionAll(ext.segs), coords)

Evolved_discovered_only(self, cell_lines, ext, dis) ==
    IF dis.tag = "loop"
    THEN IF ~validate_solved(dis.loop, self.circles)
         THEN Outcome("contradiction", self, "segments", dis.loop, cell_lines)
         ELSE Outcome("solved",
                      MkBoard(self.width, self.height, self.circles, cell_lines, <<>>),
                      "segments", dis.loop, cell_lines)
    ELSE IF dis.tag # "ok" THEN Outcome(dis.tag, self, "segments", {}, cell_lines)
    ELSE Outcome("ok",
                 MkBoard(self.width, self.height, self.circles, cell_lines, dis.segs),
                 "done", {}, cell_lines)

Evolved(self, cell_lines, ext, dis) ==
    IF dis.tag = "loop"
    THEN IF ~validate_solved(dis.loop, self.circles)
         THEN Outcome("contradiction", self, "segments", dis.loop, cell_lines)
         ELSE Outcome("solved",
                      MkBoard(self.width, self.height, self.circles, cell_lines, <<>>),
                      "segments", dis.loop, cell_lines)
    ELSE IF dis.tag # "ok" THEN Outcome(dis.tag, self, "segments", {}, cell_lines)
    ELSE Outcome("ok",
                 MkBoard(self.width, self.height, self.circles, cell_lines,
                         ext.segs \o dis.segs),
                 "done", {}, cell_lines)

Tracked(self, cell_lines, ext) ==
    Evolved(self, cell_lines, ext,
            Discover(ext, cell_lines, RowMajor(self.width, self.height)))

evolve(self, cell_lines) ==
    Tracked(self, cell_lines, _extend_line_segments(self.line_segments, cell_lines))

cell_lookup_changes_only(changes, cell_lines) ==
    [c \in DOMAIN cell_lines |-> IF c \in DOMAIN changes THEN changes[c] ELSE EmptyCell]

(* The worklist of _propagate_change.  p.changes is the overlay the loop   *)
(* writes, read through cell_lookup before the board's own cell map;       *)
(* p.positions is the deque.                                               *)
cell_lookup(changes, cell_lines) ==
    [c \in DOMAIN cell_lines |-> IF c \in DOMAIN changes THEN changes[c] ELSE cell_lines[c]]

Changed(p, m, old_cell, r) ==
    IF r.tag # "ok" THEN [p EXCEPT !.tag = r.tag]
    ELSE IF r.cell = old_cell THEN p
    ELSE [p EXCEPT !.positions = Append(@, m),
                   !.changes = [c \in DOMAIN @ \cup {m} |-> IF c = m THEN r.cell ELSE @[c]]]

(* The neighbour in a confirmed direction is looked up with [], which      *)
(* raises KeyError off the board; in an excluded direction with .get().    *)
Confirm(p, m, old_cell, direction) ==
    Changed(p, m, old_cell, set_direction(old_cell, opposite(direction)))

Exclude_skipped(p, m, old_cell, direction) == p

Exclude(p, m, old_cell, direction) ==
    Changed(p, m, old_cell, disallow_direction(old_cell, opposite(direction)))

PropagateTo(p, m, direction, confirm, lookup) ==
    IF p.tag # "ok" THEN p
    ELSE IF m \notin DOMAIN lookup
    THEN IF confirm THEN [p EXCEPT !.tag = "keyerror"] ELSE p
    ELSE IF confirm THEN Confirm(p, m, lookup[m], direction)
    ELSE Exclude(p, m, lookup[m], direction)

RECURSIVE PropagateDirs(_, _, _, _, _, _)
PropagateDirs(p, coord, dirs, i, confirm, cell_lines) ==
    IF i > Len(dirs) THEN p
    ELSE PropagateDirs(PropagateTo(p, move(dirs[i], coord), dirs[i], confirm,
                                   cell_lookup(p.changes, cell_lines)),
                       coord, dirs, i + 1, confirm, cell_lines)

PropagateFrom(p, coord, c, cell_lines) ==
    PropagateDirs(PropagateDirs(p, coord, Iter(c.is_set), 1, TRUE, cell_lines),
                  coord, Iter(c.cannot_set), 1, FALSE, cell_lines)

RECURSIVE PropagateLoop(_, _)
PropagateLoop(p, cell_lines) ==
    IF p.tag # "ok" \/ p.positions = <<>> THEN p
    ELSE PropagateLoop(PropagateFrom([p EXCEPT !.positions = Tail(@)],
                                     Head(p.positions), p.changes[Head(p.positions)],
                                     cell_lines),
                       cell_lines)

Worklist(self, coord, new_cell) ==
    PropagateLoop([tag |-> "ok", changes |-> (coord :> new_cell), positions |-> <<coord>>],
                  self.cell_lines)

(* A propagation that wrote its changes into the receiver's own cell map.  *)
Propagated_inplace(self, p, written) ==
    IF p.tag # "ok"
    THEN Outcome(p.tag, [self EXCEPT !.cell_lines = written], "worklist", {}, written)
    ELSE evolve(self, written)

Propagated(self, p, cell_lines) ==
    IF p.tag # "ok" THEN Outcome(p.tag, self, "worklist", {}, cell_lines)
    ELSE evolve(self, cell_lines)

Overlaid(self, p) == Propagated(self, p, cell_lookup(p.changes, self.cell_lines))

_propagate_change(self, coord, new_cell) == Overlaid(self, Worklist(self, coord, new_cell))

(* The four mutators share their shape: the CellLine operation at (x, y),  *)
(* `return self` when it changes nothing, else the propagation.            *)
Mutate(self, coord, r) ==
    IF r.tag # "ok" THEN Outcome(r.tag, self, "cell", {}, self.cell_lines)
    ELSE IF r.cell = self.cell_lines[coord] THEN Outcome("ok", self, "done", {}, self.cell_lines)
    ELSE _propagate_change(self, coord, r.cell)

Board_set_direction(self, coord, direction) ==
    Mutate(self, coord, set_direction(self.cell_lines[coord], direction))

Board_disallow_direction(self, coord, direction) ==
    Mutate(self, coord, disallow_direction(self.cell_lines[coord], direction))

set_through(self, coord) ==
    Mutate(self, coord, get_through(self.cell_lines[coord]))

set_bent(self, coord) ==
    Mutate(self, coord, get_bent(self.cell_lines[coord]))

----------------------------------------------------------------------------
(* SpecCell: one CellLine, starting empty, driven by set_direction,        *)
(* disallow_direction, get_through and get_bent.  A call that raises       *)
(* leaves the caller with the CellLine it had.                             *)

NoBoard == [width |-> 0, height |-> 0, circles |-> <<>>, cell_lines |-> <<>>,
            line_segments |-> <<>>]

NoLast == [op |-> "none", tag |-> "ok"]

(* No Ref and no PossibilityPair exists before solve makes the root.       *)
NoTree == [refs |-> <<>>, pairs |-> <<>>]

CellCall(op, direction, r) ==
    /\ pc = "cell"
    /\ Len(cell_hist) < MaxOps
    /\ cell_last' = [op |-> op, dir |-> direction, tag |-> r.tag, before |-> cell]
    /\ cell' = IF r.tag = "ok" THEN r.cell ELSE cell
    /\ cell_hist' = IF r.tag = "ok"
                    THEN Append(cell_hist, [op |-> op, dir |-> direction])
                    ELSE cell_hist
    /\ UNCHANGED <<board, last, steps, order, pc, tree>>

CellSetDirection ==
    \E d \in Direction : CellCall("set_direction", d, set_direction(cell, d))

CellDisallowDirection ==
    \E d \in Direction : CellCall("disallow_direction", d, disallow_direction(cell, d))

CellGetThrough == CellCall("get_through", None, get_through(cell))

CellGetBent == CellCall("get_bent", None, get_bent(cell))

CellInit ==
    /\ cell = EmptyCell
    /\ cell_hist = <<>>
    /\ cell_last = [op |-> "new", dir |-> None, tag |-> "ok", before |-> EmptyCell]
    /\ board = NoBoard
    /\ last = NoLast
    /\ steps = 0
    /\ order = EnumOrder
    /\ pc = "cell"
    /\ tree = NoTree

CellNext ==
    \/ CellSetDirection
    \/ CellDisallowDirection
    \/ CellGetThrough
    \/ CellGetBent

SpecCell == CellInit /\ [][CellNext]_vars

----------------------------------------------------------------------------
(* Spec: one Board, fresh from its constructor, driven by its four public  *)
(* mutators at any cell.  The caller holds `board`; a call that returns    *)
(* hands it the new board, a call that raises leaves it the one it had     *)
(* (r.board is then the receiver as the call left it).                     *)

(* The pearl maps of a width x height board with at most n pearls.  The    *)
(* mutators read the pearls only in validate_solved, so the boards of Spec *)
(* carry none or one.                                                      *)
PearlMaps(width, height, n) ==
    UNION {[P -> {WHITE, BLACK}] :
             P \in {Q \in SUBSET Coords(width, height) : Cardinality(Q) <= n}}

Sizes == {s \in (1..MaxW) \X (1..MaxH) : s[1] * s[2] <= MaxCells}

Call(op, r) ==
    /\ pc = "board"
    /\ steps < MaxSteps
    /\ last' = [op |-> op, tag |-> r.tag, stage |-> r.stage, loop |-> r.loop,
                cell_lines |-> r.cell_lines, result |-> r.board, before |-> board]
    /\ board' = IF r.tag = "solved" THEN board ELSE r.board
    /\ steps' = IF r.tag = "ok" /\ r.board # board THEN steps + 1 ELSE steps
    /\ UNCHANGED <<cell, cell_hist, cell_last, order, pc, tree>>

SetDirection ==
    \E coord \in DOMAIN board.cell_lines, d \in Direction :
        Call("set_direction", Board_set_direction(board, coord, d))

DisallowDirection ==
    \E coord \in DOMAIN board.cell_lines, d \in Direction :
        Call("disallow_direction", Board_disallow_direction(board, coord, d))

SetThrough ==
    \E coord \in DOMAIN board.cell_lines : Call("set_through", set_through(board, coord))

SetBent ==
    \E coord \in DOMAIN board.cell_lines : Call("set_bent", set_bent(board, coord))

Start(puzzles) ==
    /\ cell = EmptyCell
    /\ cell_hist = <<>>
    /\ cell_last = [op |-> "new", dir |-> None, tag |-> "ok", before |-> EmptyCell]
    /\ \E <<width, height, circles>> \in puzzles :
          /\ board = NewBoard(width, height, circles)
          /\ last = [op |-> "new", tag |-> "ok", stage |-> "done", loop |-> {},
                     cell_lines |-> board.cell_lines, result |-> board, before |-> board]
    /\ steps = 0
    /\ order \in DirOrders
    /\ pc = "board"
    /\ tree = NoTree

(* The boards of Spec carry at most one pearl, anywhere.                    *)
SpecBoards ==
    UNION {{<<s[1], s[2], circles>> : circles \in PearlMaps(s[1], s[2], 1)} : s \in Sizes}

Init == Start(SpecBoards)

Next ==
    \/ SetDirection
    \/ DisallowDirection
    \/ SetThrough
    \/ SetBent

Spec == Init /\ [][Next]_vars

(* The same mutators on larger boards, where two segments can meet without *)
(* closing a loop; a board has no pearl or a black one in its first cell.  *)
TrackSizes == {s \in (1..TrackW) \X (1..TrackH) : s[1] * s[2] <= TrackCells}

TrackBoards ==
    {<<s[1], s[2], circles>> : s \in TrackSizes, circles \in {<<>>, <<0, 0>> :> BLACK}}

InitTrack == Start(TrackBoards)

SpecTrack == InitTrack /\ [][Next]_vars

----------------------------------------------------------------------------
(* The deduction rules and the pre-pass (src/python/solve.py:490-561 and   *)
(* 736-798).  A rule is a chain of mutator calls on successive boards; the *)
(* first call that raises ends the chain with what it raised.              *)

Op(name, coord, direction) == [op |-> name, coord |-> coord, dir |-> direction]

Done(b) == Outcome("ok", b, "done", {}, b.cell_lines)

(* self.cell_lines[x, y] of a mutator raises KeyError off the board.       *)
Apply(b, o) ==
    IF o.coord \notin DOMAIN b.cell_lines
    THEN Outcome("keyerror", b, "cell", {}, b.cell_lines)
    ELSE CASE o.op = "set_direction" -> Board_set_direction(b, o.coord, o.dir)
           [] o.op = "disallow_direction" -> Board_disallow_direction(b, o.coord, o.dir)
           [] o.op = "set_through" -> set_through(b, o.coord)
           [] o.op = "set_bent" -> set_bent(b, o.coord)

RECURSIVE Chain(_, _, _)
Chain(r, ops, i) ==
    IF r.tag # "ok" \/ i > Len(ops) THEN r
    ELSE Chain(Apply(r.board, ops[i]), ops, i + 1)

BlackLeg(coord, direction) ==
    <<Op("set_direction", coord, direction),
      Op("set_through", move(direction, coord), None)>>

set_black_leg(b, coord, direction) == Chain(Done(b), BlackLeg(coord, direction), 1)

WhiteDecide_unbent(b, bend_left, bend_right) ==
    IF bend_left.tag \notin {"ok", "contradiction"} THEN bend_left
    ELSE IF bend_right.tag \notin {"ok", "contradiction"} THEN bend_right
    ELSE IF bend_left.tag = "contradiction" /\ bend_right.tag = "contradiction"
    THEN Outcome("contradiction", b, "rule", {}, b.cell_lines)
    ELSE Done(b)

(* apply_white: `with does_raise(ContradictionException)` lets every other *)
(* exception of the trial bend through, SolvedException included.          *)
WhiteDecide(b, bend_left, bend_right) ==
    IF bend_left.tag \notin {"ok", "contradiction"} THEN bend_left
    ELSE IF bend_right.tag \notin {"ok", "contradiction"} THEN bend_right
    ELSE IF bend_left.tag = "contradiction" /\ bend_right.tag = "contradiction"
    THEN Outcome("contradiction", b, "rule", {}, b.cell_lines)
    ELSE IF bend_left.tag = "ok" /\ bend_right.tag = "ok" THEN Done(b)
    ELSE IF bend_left.tag = "contradiction" THEN bend_right
    ELSE bend_left

WhiteBend(b, left, right) ==
    WhiteDecide(b, Apply(b, Op("set_bent", left, None)),
                Apply(b, Op("set_bent", right, None)))

WhiteEnds(coord, r) ==
    IF r.tag # "ok" \/ Cardinality(r.board.cell_lines[coord].is_set) # 2 THEN r
    ELSE WhiteBend(r.board,
                   move(Iter(r.board.cell_lines[coord].is_set)[1], coord),
                   move(Iter(r.board.cell_lines[coord].is_set)[2], coord))

apply_white(b, coord) == WhiteEnds(coord, Apply(b, Op("set_through", coord, None)))

(* apply_black: `cell` is read once, after set_bent; the trial legs run    *)
(* under contextlib.suppress(ContradictionException).                      *)
ThroughEach(coord, dirs) ==
    [i \in 1..Len(dirs) |-> Op("set_through", move(dirs[i], coord), None)]

TriedLeg_suppress_all(t, direction, leg) ==
    IF leg.tag = "ok" THEN [t EXCEPT !.could_dirs = @ \cup {direction}]
    ELSE t

TriedLeg(t, direction, leg) ==
    IF leg.tag = "ok" THEN [t EXCEPT !.could_dirs = @ \cup {direction}]
    ELSE IF leg.tag = "contradiction" THEN t
    ELSE [t EXCEPT !.tag = leg.tag, !.raised = leg]

RECURSIVE TryLegs(_, _, _, _, _)
TryLegs(t, b, coord, dirs, i) ==
    IF t.tag # "ok" \/ i > Len(dirs) THEN t
    ELSE TryLegs(TriedLeg(t, dirs[i], set_black_leg(b, coord, dirs[i])),
                 b, coord, dirs, i + 1)

RECURSIVE Legs_every_viable(_, _, _, _)
Legs_every_viable(coord, dirs, could_dirs, i) ==
    IF i > Len(dirs) THEN <<>>
    ELSE BlackLeg(coord, dirs[i]) \o Legs_every_viable(coord, dirs, could_dirs, i + 1)

RECURSIVE Legs(_, _, _, _)
Legs(coord, dirs, could_dirs, i) ==
    IF i > Len(dirs) THEN <<>>
    ELSE (IF opposite(dirs[i]) \notin could_dirs THEN BlackLeg(coord, dirs[i]) ELSE <<>>)
         \o Legs(coord, dirs, could_dirs, i + 1)

BlackDecide(coord, r, t) ==
    IF t.tag # "ok" THEN t.raised
    ELSE Chain(r, Legs(coord, Iter(t.could_dirs), t.could_dirs, 1), 1)

BlackLegs(coord, c, r) ==
    IF r.tag # "ok" \/ is_done(c) THEN r
    ELSE BlackDecide(coord, r,
                     TryLegs([tag |-> "ok", could_dirs |-> {}, raised |-> r],
                             r.board, coord, Iter(could_set(c)), 1))

BlackCell(coord, r) ==
    IF r.tag # "ok" THEN r
    ELSE BlackLegs(coord, r.board.cell_lines[coord],
                   Chain(r, ThroughEach(coord, Iter(r.board.cell_lines[coord].is_set)), 1))

apply_black(b, coord) == BlackCell(coord, Apply(b, Op("set_bent", coord, None)))

(* board.circles.items(): the pearls in the order board_from_string        *)
(* inserted them, row by row.                                              *)
Pearls(b) == SelectSeq(RowMajor(b.width, b.height), LAMBDA c : c \in DOMAIN b.circles)

ApplyRule(b, coord) ==
    IF b.circles[coord] = WHITE THEN apply_white(b, coord) ELSE apply_black(b, coord)

RECURSIVE ApplyRules(_, _, _)
ApplyRules(r, pearls, i) ==
    IF r.tag # "ok" \/ i > Len(pearls) THEN r
    ELSE ApplyRules(ApplyRule(r.board, pearls[i]), pearls, i + 1)

(* Board equality leaves line_segments out (cmp=False).                    *)
BoardEq(a, b) ==
    /\ a.width = b.width
    /\ a.height = b.height
    /\ a.circles = b.circles
    /\ a.cell_lines = b.cell_lines

Fixpoint_one_pass(old_board, r) ==
    IF r.tag # "ok" THEN r ELSE ApplyRules(r, Pearls(r.board), 1)

RECURSIVE Fixpoint(_, _)
Fixpoint(old_board, r) ==
    IF r.tag # "ok" \/ BoardEq(old_board, r.board) THEN r
    ELSE Fixpoint(r.board, ApplyRules(r, Pearls(r.board), 1))

solve_known_constraints(b) == Fixpoint(NoBoard, Done(b))

(* The pre-pass patterns.                                                  *)
CircleAt(circles, coord) == IF coord \in DOMAIN circles THEN circles[coord] ELSE None

ThreeWhites_no_stub(coord, direction, step) ==
    <<Op("set_through", coord, None),
      Op("set_through", move(step, coord), None),
      Op("set_through", move(step, move(step, coord)), None)>>

ThreeWhites(coord, direction, step) ==
    <<Op("set_direction", coord, direction),
      Op("set_through", coord, None),
      Op("set_through", move(step, coord), None),
      Op("set_through", move(step, move(step, coord)), None)>>

_solve_three_consecutive_whites(r, coord) ==
    IF r.tag # "ok" THEN r
    ELSE IF /\ CircleAt(r.board.circles, move("Right", coord)) = WHITE
            /\ CircleAt(r.board.circles, move("Right", move("Right", coord))) = WHITE
    THEN Chain(r, ThreeWhites(coord, "Up", "Right"), 1)
    ELSE IF /\ CircleAt(r.board.circles, move("Down", coord)) = WHITE
            /\ CircleAt(r.board.circles, move("Down", move("Down", coord))) = WHITE
    THEN Chain(r, ThreeWhites(coord, "Right", "Down"), 1)
    ELSE r

AdjacentBlacks_towards(circles, coord) ==
    (IF CircleAt(circles, move("Right", coord)) = BLACK
     THEN BlackLeg(coord, "Right") \o BlackLeg(move("Right", coord), "Left")
     ELSE <<>>)
    \o (IF CircleAt(circles, move("Down", coord)) = BLACK
        THEN BlackLeg(coord, "Down") \o BlackLeg(move("Down", coord), "Up")
        ELSE <<>>)

AdjacentBlacks(circles, coord) ==
    (IF CircleAt(circles, move("Right", coord)) = BLACK
     THEN BlackLeg(coord, "Left") \o BlackLeg(move("Right", coord), "Right")
     ELSE <<>>)
    \o (IF CircleAt(circles, move("Down", coord)) = BLACK
        THEN BlackLeg(coord, "Up") \o BlackLeg(move("Down", coord), "Down")
        ELSE <<>>)

_solve_adjacent_blacks(r, coord) ==
    IF r.tag # "ok" THEN r ELSE Chain(r, AdjacentBlacks(r.board.circles, coord), 1)

RECURSIVE OverlongLegs(_, _, _)
OverlongLegs(circles, coord, i) ==
    IF i > Len(EnumOrder) THEN <<>>
    ELSE (IF /\ CircleAt(circles, move(EnumOrder[i], move(EnumOrder[i], coord))) = WHITE
             /\ CircleAt(circles, move(EnumOrder[i],
                                       move(EnumOrder[i], move(EnumOrder[i], coord)))) = WHITE
          THEN BlackLeg(coord, opposite(EnumOrder[i]))
          ELSE <<>>)
         \o OverlongLegs(circles, coord, i + 1)

_solve_overlong_leg(r, coord) ==
    IF r.tag # "ok" THEN r ELSE Chain(r, OverlongLegs(r.board.circles, coord, 1), 1)

RECURSIVE WingmanLegs(_, _, _)
WingmanLegs(circles, coord, i) ==
    IF i > Len(EnumOrder) THEN <<>>
    ELSE (IF /\ CircleAt(circles, move(turn_left(EnumOrder[i]),
                                       move(EnumOrder[i], coord))) = WHITE
             /\ CircleAt(circles, move(turn_right(EnumOrder[i]),
                                       move(EnumOrder[i], coord))) = WHITE
          THEN BlackLeg(coord, opposite(EnumOrder[i]))
          ELSE <<>>)
         \o WingmanLegs(circles, coord, i + 1)

_solve_wingman_black(r, coord) ==
    IF r.tag # "ok" THEN r ELSE Chain(r, WingmanLegs(r.board.circles, coord, 1), 1)

Pattern(r, coord) ==
    IF r.tag # "ok" THEN r
    ELSE IF r.board.circles[coord] = WHITE THEN _solve_three_consecutive_whites(r, coord)
    ELSE _solve_wingman_black(
             _solve_adjacent_blacks(_solve_overlong_leg(r, coord), coord), coord)

RECURSIVE Patterns(_, _, _)
Patterns(r, pearls, i) ==
    IF r.tag # "ok" \/ i > Len(pearls) THEN r
    ELSE Patterns(Pattern(r, pearls[i]), pearls, i + 1)

solve_initial_patterns(b) == Patterns(Done(b), Pearls(b), 1)

----------------------------------------------------------------------------
(* The search (src/python/solve.py:564-715).  tree.refs[n] is the          *)
(* Lookahead the n-th Ref holds and tree.refs[1] is the root;              *)
(* tree.pairs[p] is the p-th PossibilityPair, whose yes, no and parent are *)
(* Refs.  A parent of 0 is None.  What nothing refers to any more stays in *)
(* the two sequences, out of reach of the root.                            *)

UNEXPLORED == <<0>>

Lookahead(b, parent) == [board |-> b, possibilities |-> UNEXPLORED, parent |-> parent]

(* One `with contextlib.suppress(ContradictionException): yield            *)
(* solve_known_constraints(...)`, given how the mutator ended.             *)
Hypothesis(r) == IF r.tag = "ok" THEN solve_known_constraints(r.board) ELSE r

(* An exception other than ContradictionException ends the generator.      *)
Options(yes, b, coord, direction) ==
    IF yes.tag \in {"ok", "contradiction"}
    THEN <<yes, Hypothesis(Board_disallow_direction(b, coord, direction))>>
    ELSE <<yes>>

_spot_direction_options(b, coord, direction) ==
    Options(Hypothesis(Board_set_direction(b, coord, direction)), b, coord, direction)

RECURSIVE Candidates_unmasked(_, _, _)
Candidates_unmasked(b, coords, i) ==
    IF i > Len(coords) THEN <<>>
    ELSE LET dirs == Iter(could_set(b.cell_lines[coords[i]]))
         IN  [k \in 1..Len(dirs) |-> <<coords[i], dirs[k]>>]
                 \o Candidates_unmasked(b, coords, i + 1)

(* The two loops of get_possibility_list: the cells row by row, and of     *)
(* each the directions of `cell.could_set() & mask` in iteration order.    *)
RECURSIVE Candidates(_, _, _)
Candidates(b, coords, i) ==
    IF i > Len(coords) THEN <<>>
    ELSE LET dirs == Iter(could_set(b.cell_lines[coords[i]]) \cap {"Right", "Down"})
         IN  [k \in 1..Len(dirs) |-> <<coords[i], dirs[k]>>]
                 \o Candidates(b, coords, i + 1)

Possible(kind, value, evaluated) == [kind |-> kind, value |-> value, evaluated |-> evaluated]

(* The body of the loop, given the outcomes of the two hypotheses: the     *)
(* value is the Board of a certainty, the list of pairs of boards          *)
(* otherwise, or the exception that left a hypothesis.                     *)
RECURSIVE Possibilities(_, _, _, _)
Possibility(b, cands, i, acc, options) ==
    LET boards == SelectSeq(options, LAMBDA r : r.tag = "ok")
        thrown == SelectSeq(options, LAMBDA r : r.tag \notin {"ok", "contradiction"})
    IN  IF thrown # <<>> THEN Possible("raised", thrown[1], i)
        ELSE IF Len(boards) = 1 THEN Possible("certain", boards[1].board, i)
        ELSE IF boards = <<>> THEN Possible("list", <<>>, i)
        ELSE Possibilities(b, cands, i + 1,
                           Append(acc, <<boards[1].board, boards[2].board>>))

Possibilities(b, cands, i, acc) ==
    IF i > Len(cands) THEN Possible("list", acc, Len(cands))
    ELSE Possibility(b, cands, i, acc,
                     _spot_direction_options(b, cands[i][1], cands[i][2]))

get_possibility_list(b) ==
    Possibilities(b, Candidates(b, RowMajor(b.width, b.height), 1), 1, <<>>)

(* Lookahead.get_sibling, of the Lookahead of Ref n.                       *)
get_sibling(t, n) ==
    LET pos == t.pairs[t.refs[n].parent]
    IN  IF t.refs[pos.yes] = t.refs[n] THEN pos.no ELSE pos.yes

(* `lookahead_ref.possibilities = possibilities`: PossibilityPair.new made *)
(* each pair with two new Refs to two new unexplored Lookaheads.           *)
Branched(t, n, boards) ==
    LET pairs == Len(t.pairs)
        refs == Len(t.refs)
    IN  [refs |-> [t.refs EXCEPT ![n].possibilities =
                                     [k \in 1..Len(boards) |-> pairs + k]]
                  \o [j \in 1..(2 * Len(boards)) |->
                         Lookahead(boards[(j + 1) \div 2][2 - (j % 2)],
                                   pairs + ((j + 1) \div 2))],
         pairs |-> t.pairs
                  \o [k \in 1..Len(boards) |->
                         [yes |-> refs + 2 * k - 1, no |-> refs + 2 * k, parent |-> n]]]

Pruned_unparented(t, n, sibling, parent) ==
    LET lookahead == [t.refs[sibling] EXCEPT !.parent = t.refs[parent].parent]
    IN  [refs |-> [t.refs EXCEPT ![sibling] = lookahead, ![parent] = lookahead],
         pairs |-> t.pairs]

(* The contradiction branch of expand below the root: the Ref above the    *)
(* pair comes to hold the sibling's Lookahead.                             *)
Pruned(t, n, sibling, parent) ==
    LET lookahead == [t.refs[sibling] EXCEPT !.parent = t.refs[parent].parent]
    IN  [refs |-> [t.refs EXCEPT ![sibling] = lookahead, ![parent] = lookahead],
         pairs |-> [p \in DOMAIN t.pairs |->
                       IF lookahead.possibilities # UNEXPLORED
                          /\ \E k \in DOMAIN lookahead.possibilities :
                                lookahead.possibilities[k] = p
                       THEN [t.pairs[p] EXCEPT !.parent = parent]
                       ELSE t.pairs[p]]]

Expansion(tag, t, n, p, raised) ==
    [tag |-> tag, tree |-> t, node |-> n, kind |-> p.kind, value |-> p.value,
     evaluated |-> p.evaluated, raised |-> raised]

Expanded_certain_dropped(t, n, p) ==
    CASE p.kind = "raised" -> Expansion(p.value.tag, t, n, p, p.value)
      [] p.kind = "list" /\ p.value = <<>> /\ t.refs[n].parent = 0 ->
            Expansion("contradiction", t, n, p,
                      Outcome("contradiction", t.refs[n].board, "root", {},
                              t.refs[n].board.cell_lines))
      [] p.kind = "list" /\ p.value = <<>> /\ t.refs[n].parent # 0 ->
            Expansion("ok", Pruned(t, n, get_sibling(t, n),
                                   t.pairs[t.refs[n].parent].parent),
                      n, p, Done(t.refs[n].board))
      [] p.kind = "list" /\ p.value # <<>> ->
            Expansion("ok", Branched(t, n, p.value), n, p, Done(t.refs[n].board))
      [] p.kind = "certain" ->
            Expansion("ok", t, n, p, Done(t.refs[n].board))

Expanded_certain_beside(t, n, p) ==
    CASE p.kind = "raised" -> Expansion(p.value.tag, t, n, p, p.value)
      [] p.kind = "list" /\ p.value = <<>> /\ t.refs[n].parent = 0 ->
            Expansion("contradiction", t, n, p,
                      Outcome("contradiction", t.refs[n].board, "root", {},
                              t.refs[n].board.cell_lines))
      [] p.kind = "list" /\ p.value = <<>> /\ t.refs[n].parent # 0 ->
            Expansion("ok", Pruned(t, n, get_sibling(t, n),
                                   t.pairs[t.refs[n].parent].parent),
                      n, p, Done(t.refs[n].board))
      [] p.kind = "list" /\ p.value # <<>> ->
            Expansion("ok", Branched(t, n, p.value), n, p, Done(t.refs[n].board))
      [] p.kind = "certain" /\ t.refs[n].parent = 0 ->
            Expansion("ok", [t EXCEPT !.refs[n].board = p.value], n, p, Done(p.value))
      [] p.kind = "certain" /\ t.refs[n].parent # 0 ->
            Expansion("ok", [t EXCEPT !.refs[n].board = p.value,
                                     !.refs[get_sibling(t, n)].board = p.value],
                      n, p, Done(p.value))

Expanded_certain_explored(t, n, p) ==
    CASE p.kind = "raised" -> Expansion(p.value.tag, t, n, p, p.value)
      [] p.kind = "list" /\ p.value = <<>> /\ t.refs[n].parent = 0 ->
            Expansion("contradiction", t, n, p,
                      Outcome("contradiction", t.refs[n].board, "root", {},
                              t.refs[n].board.cell_lines))
      [] p.kind = "list" /\ p.value = <<>> /\ t.refs[n].parent # 0 ->
            Expansion("ok", Pruned(t, n, get_sibling(t, n),
                                   t.pairs[t.refs[n].parent].parent),
                      n, p, Done(t.refs[n].board))
      [] p.kind = "list" /\ p.value # <<>> ->
            Expansion("ok", Branched(t, n, p.value), n, p, Done(t.refs[n].board))
      [] p.kind = "certain" ->
            Expansion("ok", [t EXCEPT !.refs[n].board = p.value,
                                     !.refs[n].possibilities = <<>>],
                      n, p, Done(p.value))

Expanded(t, n, p) ==
    CASE p.kind = "raised" -> Expansion(p.value.tag, t, n, p, p.value)
      [] p.kind = "list" /\ p.value = <<>> /\ t.refs[n].parent = 0 ->
            Expansion("contradiction", t, n, p,
                      Outcome("contradiction", t.refs[n].board, "root", {},
                              t.refs[n].board.cell_lines))
      [] p.kind = "list" /\ p.value = <<>> /\ t.refs[n].parent # 0 ->
            Expansion("ok", Pruned(t, n, get_sibling(t, n),
                                   t.pairs[t.refs[n].parent].parent),
                      n, p, Done(t.refs[n].board))
      [] p.kind = "list" /\ p.value # <<>> ->
            Expansion("ok", Branched(t, n, p.value), n, p, Done(t.refs[n].board))
      [] p.kind = "certain" ->
            Expansion("ok", [t EXCEPT !.refs[n].board = p.value], n, p, Done(p.value))

expand(t, n) == Expanded(t, n, get_possibility_list(t.refs[n].board))

RECURSIVE Unexplored_depth_first(_, _)
Unexplored_depth_first(t, queue) ==
    IF queue = <<>> THEN 0
    ELSE IF t.refs[Head(queue)].possibilities = UNEXPLORED THEN Head(queue)
    ELSE LET possibilities == t.refs[Head(queue)].possibilities
         IN  Unexplored_depth_first(t,
                 [j \in 1..(2 * Len(possibilities)) |->
                     IF j % 2 = 1 THEN t.pairs[possibilities[(j + 1) \div 2]].yes
                     ELSE t.pairs[possibilities[(j + 1) \div 2]].no]
                 \o Tail(queue))

(* The queue of explore: the Ref it stops at, or 0 when the queue runs out. *)
RECURSIVE Unexplored(_, _)
Unexplored(t, queue) ==
    IF queue = <<>> THEN 0
    ELSE IF t.refs[Head(queue)].possibilities = UNEXPLORED THEN Head(queue)
    ELSE LET possibilities == t.refs[Head(queue)].possibilities
         IN  Unexplored(t, Tail(queue)
                 \o [j \in 1..(2 * Len(possibilities)) |->
                        IF j % 2 = 1 THEN t.pairs[possibilities[(j + 1) \div 2]].yes
                        ELSE t.pairs[possibilities[(j + 1) \div 2]].no])

(* explore returns False when it finds nothing to expand.                  *)
explore(t) ==
    IF Unexplored(t, <<1>>) = 0
    THEN Expansion("false", t, 0, Possible("none", <<>>, 0), Done(t.refs[1].board))
    ELSE expand(t, Unexplored(t, <<1>>))

----------------------------------------------------------------------------
(* SpecSolve: main on a puzzle: the pre-pass, then solve: the fixpoint of  *)
(* the deduction rules that makes the root, and explore until something    *)
(* is raised.  solve catches SolvedException alone and returns its board   *)
(* (pc "returned"); any other exception, and a SolvedException of the      *)
(* pre-pass, leaves main (pc "raised").  last.result is the board the      *)
(* exception carries.                                                      *)

Ended(op, tag) ==
    IF tag = "solved" /\ op # "solve_initial_patterns" THEN "returned" ELSE "raised"

Run(op, r, from, to) ==
    /\ pc = from
    /\ last' = [op |-> op, tag |-> r.tag, stage |-> r.stage, loop |-> r.loop,
                cell_lines |-> r.cell_lines, result |-> r.board, before |-> board]
    /\ board' = IF r.tag = "ok" THEN r.board ELSE board
    /\ pc' = IF r.tag = "ok" THEN to ELSE Ended(op, r.tag)
    /\ tree' = IF r.tag = "ok" /\ to = "search"
               THEN [refs |-> <<Lookahead(r.board, 0)>>, pairs |-> <<>>]
               ELSE tree
    /\ UNCHANGED <<cell, cell_hist, cell_last, steps, order>>

SolveInitialPatterns ==
    Run("solve_initial_patterns", solve_initial_patterns(board), "patterns", "solve")

SolveKnownConstraints ==
    Run("solve_known_constraints", solve_known_constraints(board), "solve", "search")

(* One turn of `while explore(root)`.                                      *)
Turn(e, limit) ==
    /\ pc = "search"
    /\ steps < limit
    /\ last' = [op |-> "explore", tag |-> e.tag, stage |-> e.raised.stage,
                loop |-> e.raised.loop, cell_lines |-> e.raised.cell_lines,
                result |-> e.raised.board, before |-> board, node |-> e.node,
                kind |-> e.kind, value |-> e.value, evaluated |-> e.evaluated,
                tree |-> tree]
    /\ tree' = e.tree
    /\ pc' = CASE e.tag = "ok" -> "search"
               [] e.tag = "false" -> "none"
               [] OTHER -> Ended("explore", e.tag)
    /\ steps' = steps + 1
    /\ UNCHANGED <<cell, cell_hist, cell_last, board, order>>

Explore == Turn(explore(tree), MaxExplores)

StartSolve(puzzles) ==
    /\ cell = EmptyCell
    /\ cell_hist = <<>>
    /\ cell_last = [op |-> "new", dir |-> None, tag |-> "ok", before |-> EmptyCell]
    /\ \E <<width, height, circles>> \in puzzles :
          /\ board = NewBoard(width, height, circles)
          /\ last = [op |-> "new", tag |-> "ok", stage |-> "done", loop |-> {},
                     cell_lines |-> board.cell_lines, result |-> board, before |-> board]
    /\ steps = 0
    /\ order \in DirOrders
    /\ pc = "patterns"
    /\ tree = NoTree

(* The puzzles of SpecSolve: every placement of at most MaxPearls pearls.  *)
InitSolve ==
    StartSolve(UNION {{<<s[1], s[2], circles>> :
                          circles \in PearlMaps(s[1], s[2], MaxPearls)} : s \in Sizes})

NextSolve ==
    \/ SolveInitialPatterns
    \/ SolveKnownConstraints
    \/ Explore

SpecSolve == InitSolve /\ [][NextSolve]_vars

(* The puzzles of SpecSearch, on which the search meets each of its cases. *)
Puzzle(width, height, whites, blacks) ==
    <<width, height, [c \in whites \cup blacks |-> IF c \in whites THEN WHITE ELSE BLACK]>>

SearchBoards ==
    {Puzzle(3, 3, {}, {}),
     Puzzle(4, 4, {<<2, 0>>}, {<<1, 3>>}),
     Puzzle(4, 4, {<<1, 1>>, <<2, 1>>, <<1, 2>>}, {}),
     Puzzle(4, 4, {}, {<<0, 1>>, <<2, 2>>}),
     Puzzle(5, 3, {<<3, 0>>, <<1, 1>>}, {}),
     Puzzle(5, 4, {<<1, 0>>, <<3, 1>>}, {<<2, 3>>}),
     Puzzle(3, 3, {}, {<<1, 1>>}),
     Puzzle(3, 3, {}, {<<1, 0>>}),
     Puzzle(4, 3, {}, {<<1, 1>>}),
     Puzzle(3, 3, {<<2, 1>>}, {}),
     Puzzle(3, 1, {<<0, 0>>, <<1, 0>>, <<2, 0>>}, {}),
     Puzzle(4, 4, {<<0, 1>>, <<1, 1>>, <<2, 1>>}, {}),
     Puzzle(6, 2, {}, {<<2, 0>>, <<3, 0>>}),
     Puzzle(2, 6, {}, {<<0, 2>>, <<0, 3>>}),
     Puzzle(6, 1, {}, {<<2, 0>>, <<3, 0>>})}

InitSearch == StartSolve(SearchBoards)

SpecSearch == InitSearch /\ [][NextSolve]_vars

(* SpecDeep: solve run long enough for the search to expand the nodes two  *)
(* pairs below the root: a dead end and a certainty there, a dead end      *)
(* right below the root, and a dead end below a pair that an earlier dead  *)
(* end had spliced in; and, on the two-row puzzle, a trial that closes two *)
(* loops in one propagation.                                               *)
ExploreDeep == Turn(explore(tree), MaxDeep)

InitDeep ==
    StartSolve({Puzzle(5, 3, {<<1, 0>>, <<3, 0>>}, {}),
                Puzzle(5, 3, {<<2, 1>>}, {}),
                Puzzle(3, 5, {<<1, 1>>, <<2, 2>>}, {}),
                Puzzle(6, 3, {<<1, 0>>}, {<<3, 0>>}),
                Puzzle(6, 2, {<<3, 0>>}, {})})

NextDeep ==
    \/ SolveInitialPatterns
    \/ SolveKnownConstraints
    \/ ExploreDeep

SpecDeep == InitDeep /\ [][NextDeep]_vars

----------------------------------------------------------------------------
(* SpecRules: the deduction rules as a caller may apply them: on a fresh   *)
(* board one public mutator at most, then apply_white at a white pearl,    *)
(* apply_black at a black pearl and solve_known_constraints, in any order. *)
(* A call that raises leaves the caller with the board it had.             *)

Rule(op, coord, r, limit) ==
    /\ pc = "rules"
    /\ steps < limit
    /\ last' = [op |-> op, coord |-> coord, tag |-> r.tag, stage |-> r.stage,
                loop |-> r.loop, cell_lines |-> r.cell_lines, result |-> r.board,
                before |-> board]
    /\ board' = IF r.tag = "ok" THEN r.board ELSE board
    /\ steps' = steps + 1
    /\ UNCHANGED <<cell, cell_hist, cell_last, order, pc, tree>>

Mutators(coord) ==
    {Op("set_through", coord, None), Op("set_bent", coord, None)}
    \cup {Op(name, coord, d) : name \in {"set_direction", "disallow_direction"},
                               d \in Direction}

Prepare ==
    \E coord \in DOMAIN board.cell_lines : \E o \in Mutators(coord) :
        Rule(o.op, coord, Apply(board, o), MaxPrepare)

ApplyWhite ==
    \E coord \in DOMAIN board.circles :
        /\ board.circles[coord] = WHITE
        /\ Rule("apply_white", coord, apply_white(board, coord), MaxRules)

ApplyBlack ==
    \E coord \in DOMAIN board.circles :
        /\ board.circles[coord] = BLACK
        /\ Rule("apply_black", coord, apply_black(board, coord), MaxRules)

KnownConstraints ==
    Rule("solve_known_constraints", None, solve_known_constraints(board), MaxRules)

RuleBoards ==
    {Puzzle(4, 2, {<<1, 0>>}, {}),
     Puzzle(4, 2, {<<1, 0>>}, {<<3, 1>>}),
     Puzzle(5, 3, {<<1, 0>>, <<2, 0>>, <<3, 0>>}, {}),
     Puzzle(4, 3, {<<2, 1>>}, {<<0, 0>>}),
     Puzzle(3, 3, {}, {<<1, 1>>}),
     Puzzle(4, 3, {}, {<<1, 1>>}),
     Puzzle(5, 3, {}, {<<2, 1>>}),
     Puzzle(5, 4, {}, {<<2, 1>>}),
     Puzzle(4, 4, {}, {<<1, 1>>}),
     Puzzle(4, 4, {<<3, 1>>}, {<<1, 1>>}),
     Puzzle(4, 4, {<<2, 2>>}, {<<1, 1>>}),
     Puzzle(3, 2, {<<1, 0>>}, {<<0, 1>>})}

InitRules ==
    /\ cell = EmptyCell
    /\ cell_hist = <<>>
    /\ cell_last = [op |-> "new", dir |-> None, tag |-> "ok", before |-> EmptyCell]
    /\ \E <<width, height, circles>> \in RuleBoards :
          /\ board = NewBoard(width, height, circles)
          /\ last = [op |-> "new", coord |-> None, tag |-> "ok", stage |-> "done",
                     loop |-> {}, cell_lines |-> board.cell_lines, result |-> board,
                     before |-> board]
    /\ steps = 0
    /\ order \in DirOrders
    /\ pc = "rules"
    /\ tree = NoTree

NextRules ==
    \/ Prepare
    \/ ApplyWhite
    \/ ApplyBlack
    \/ KnownConstraints

SpecRules == InitRules /\ [][NextRules]_vars


----------------------------------------------------------------------------
(* Properties of the CellLine, checked under SpecCell.                     *)

(* C4: on every CellLine reached from the empty one by operations that did *)
(* not fail, confirmed and excluded are disjoint, at most two directions   *)
(* are confirmed, two confirmed directions leave exactly the other two     *)
(* excluded, and never exactly three directions are excluded.              *)
C4_CellLineInvariant ==
    /\ cell.is_set \cap cell.cannot_set = {}
    /\ Cardinality(cell.is_set) <= 2
    /\ Cardinality(cell.is_set) = 2 => cell.cannot_set = Direction \ cell.is_set
    /\ Cardinality(cell.cannot_set) # 3

C4_Witness ==
    /\ cell_last.op = "get_bent"
    /\ cell_last.tag = "ok"
    /\ cell # cell_last.before
    /\ Cardinality(cell.is_set) = 2

(* C7: after a successful set_direction(d), disallow_direction(d) raises   *)
(* ContradictionException; after a successful disallow_direction(d),       *)
(* set_direction(d) raises it.                                             *)
C7_ConfirmThenExcludeFails ==
    /\ (cell_last.op = "set_direction" /\ cell_last.tag = "ok")
          => disallow_direction(cell, cell_last.dir).tag = "contradiction"
    /\ (cell_last.op = "disallow_direction" /\ cell_last.tag = "ok")
          => set_direction(cell, cell_last.dir).tag = "contradiction"

C7_Witness ==
    /\ cell_last.op = "disallow_direction"
    /\ cell_last.tag = "ok"
    /\ cell # cell_last.before
    /\ Len(cell_hist) >= 2

(* C8: set_direction is idempotent: after a successful set_direction(d), a *)
(* second set_direction(d) returns the same CellLine.                      *)
C8_SetDirectionIdempotent ==
    (cell_last.op = "set_direction" /\ cell_last.tag = "ok")
        => set_direction(cell, cell_last.dir) = Return(cell)

C8_Witness ==
    /\ cell_last.op = "set_direction"
    /\ cell_last.tag = "ok"
    /\ cell # cell_last.before
    /\ Cardinality(cell.is_set) = 1

(* C9: from the empty CellLine, disallowing three distinct directions      *)
(* leaves all four excluded, none confirmed and the cell done; setting two *)
(* distinct directions leaves exactly those confirmed and the other two    *)
(* excluded.                                                               *)
Did(op, direction) == [op |-> op, dir |-> direction]

C9_ThreeExclusionsTwoConfirmations ==
    /\ \A d1, d2, d3 \in Direction :
          (/\ Cardinality({d1, d2, d3}) = 3
           /\ cell_hist = <<Did("disallow_direction", d1), Did("disallow_direction", d2),
                            Did("disallow_direction", d3)>>)
             => /\ cell = CellLine({}, Direction)
                /\ is_done(cell)
    /\ \A d1, d2 \in Direction :
          (/\ d1 # d2
           /\ cell_hist = <<Did("set_direction", d1), Did("set_direction", d2)>>)
             => cell = CellLine({d1, d2}, Direction \ {d1, d2})

C9_Witness ==
    cell_hist = <<Did("disallow_direction", "Up"), Did("disallow_direction", "Right"),
                  Did("disallow_direction", "Down")>>

----------------------------------------------------------------------------
(* Properties of the Board, checked under Spec and SpecTrack.              *)

(* The cells on a closed cycle of confirmed edges of a cell map: the       *)
(* largest set of cells with two lines each whose lines stay in the set.   *)
LoopCells(cell_lines) ==
    UNION {K \in SUBSET DOMAIN cell_lines :
             \A c \in K : /\ Cardinality(cell_lines[c].is_set) = 2
                          /\ \A d \in cell_lines[c].is_set : move(d, c) \in K}

(* C2: when the cell map a mutator has propagated holds a closed loop, the *)
(* call ends Solved if every pearl is on the loop and Contradiction        *)
(* otherwise; and Solved is reported of a closed loop only.                *)
C2_SolvedIffLoopCoversPearls ==
    /\ (last.stage \in {"segments", "done"} /\ LoopCells(last.cell_lines) # {})
          => /\ last.tag \in {"solved", "contradiction"}
             /\ last.tag = "solved"
                   <=> DOMAIN board.circles \subseteq LoopCells(last.cell_lines)
    /\ last.tag = "solved" => LoopCells(last.cell_lines) # {}

C2_Witness ==
    /\ last.tag = "contradiction"
    /\ last.stage = "segments"
    /\ LoopCells(last.cell_lines) # {}
    /\ ~(DOMAIN board.circles \subseteq LoopCells(last.cell_lines))

(* C3: a mutator call that fails leaves the board the caller holds exactly *)
(* as it was before the call: cell_lines, circles and line_segments.       *)
C3_PropagationAtomic ==
    last.tag \notin {"ok", "solved"}
        => /\ board.cell_lines = last.before.cell_lines
           /\ board.circles = last.before.circles
           /\ board.line_segments = last.before.line_segments

C3_Witness ==
    /\ last.tag = "contradiction"
    /\ last.stage = "worklist"
    /\ Cardinality({c \in DOMAIN board.cell_lines :
                       last.cell_lines[c] # board.cell_lines[c]}) >= 2
    /\ steps >= 1

(* C5: on a board of any size from 1 x 1 up, every cell of the initial     *)
(* board and of every board a successful mutator returns has never exactly *)
(* three excluded directions, and a done cell has 0 or 2 confirmed.        *)
C5_BoardCellLineInvariant ==
    \A c \in DOMAIN board.cell_lines :
        /\ Cardinality(board.cell_lines[c].cannot_set) # 3
        /\ is_done(board.cell_lines[c])
              => Cardinality(board.cell_lines[c].is_set) \in {0, 2}

(* C6: on the initial board and on every board a successful mutator        *)
(* returns, a direction is confirmed (excluded) at a cell exactly when the *)
(* opposite direction is confirmed (excluded) at the neighbour on the grid.*)
C6_EdgeConsistency ==
    \A c \in DOMAIN board.cell_lines : \A d \in Direction :
        move(d, c) \in DOMAIN board.cell_lines
            => /\ d \in board.cell_lines[c].is_set
                   <=> opposite(d) \in board.cell_lines[move(d, c)].is_set
               /\ d \in board.cell_lines[c].cannot_set
                   <=> opposite(d) \in board.cell_lines[move(d, c)].cannot_set

C6_Witness ==
    /\ last.tag = "ok"
    /\ last.op = "disallow_direction"
    /\ Cardinality({c \in DOMAIN board.cell_lines :
                       board.cell_lines[c] # last.before.cell_lines[c]}) >= 3

(* C10: a mutator that returns a board never loses a coordinate from the   *)
(* union of the segments' `contains` sets, also when segments merge.       *)
C10_SegmentCoverageGrows ==
    last.tag = "ok"
        => UnionAll(last.before.line_segments) \subseteq UnionAll(board.line_segments)

C10_Witness ==
    /\ last.tag = "ok"
    /\ Len(last.before.line_segments) >= 2
    /\ Len(board.line_segments) < Len(last.before.line_segments)

----------------------------------------------------------------------------
(* Properties of the solver, checked under SpecSolve.                      *)

IsStraight(c) == Cardinality(c.is_set) = 2 /\ IsOppositePair(c.is_set)

IsBent(c) == Cardinality(c.is_set) = 2 /\ ~IsOppositePair(c.is_set)

Closed(K, cell_lines) ==
    \A c \in K : /\ Cardinality(cell_lines[c].is_set) = 2
                 /\ \A d \in cell_lines[c].is_set : move(d, c) \in K

(* The closed loops of a cell map: the smallest non-empty closed sets.     *)
Loops(cell_lines) ==
    {K \in SUBSET DOMAIN cell_lines :
        /\ K # {}
        /\ Closed(K, cell_lines)
        /\ \A J \in SUBSET K : (J # {} /\ Closed(J, cell_lines)) => J = K}

MasyuSolution(b) ==
    /\ \E K \in Loops(b.cell_lines) : DOMAIN b.circles \subseteq K
    /\ \A p \in DOMAIN b.circles :
          IF b.circles[p] = WHITE
          THEN /\ IsStraight(b.cell_lines[p])
               /\ \E d \in b.cell_lines[p].is_set : IsBent(b.cell_lines[move(d, p)])
          ELSE /\ IsBent(b.cell_lines[p])
               /\ \A d \in b.cell_lines[p].is_set : IsStraight(b.cell_lines[move(d, p)])

(* C1: the board a SolvedException carries is a valid Masyu solution: a    *)
(* closed loop through every pearl, straight through each white pearl with *)
(* a bend next to it, bent at each black pearl with both neighbours        *)
(* straight.                                                               *)
C1_SolvedBoardIsMasyuSolution ==
    last.tag = "solved" => MasyuSolution(last.result)

----------------------------------------------------------------------------
(* Properties of solve, checked under SpecSolve and SpecSearch.            *)

(* The hypothesis `confirm` of candidate c = <<coord, direction>> on board *)
(* b, as _spot_direction_options runs it.                                  *)
Trial(b, c, confirm) ==
    IF confirm
    THEN (IF Board_set_direction(b, c[1], c[2]).tag = "ok"
          THEN solve_known_constraints(Board_set_direction(b, c[1], c[2]).board)
          ELSE Board_set_direction(b, c[1], c[2]))
    ELSE (IF Board_disallow_direction(b, c[1], c[2]).tag = "ok"
          THEN solve_known_constraints(Board_disallow_direction(b, c[1], c[2]).board)
          ELSE Board_disallow_direction(b, c[1], c[2]))

(* The board explore expands next, and the candidates of its loop.         *)
NextBoard == tree.refs[Unexplored(tree, <<1>>)].board

NextCandidates == Candidates(NextBoard, RowMajor(NextBoard.width, NextBoard.height), 1)

(* get_possibility_list runs hypothesis `confirm` of candidate k: every    *)
(* earlier candidate gave two boards, and the confirmation of k did not    *)
(* raise anything but a contradiction.                                     *)
Runs(k, confirm) ==
    /\ \A j \in 1..(k - 1) :
          Trial(NextBoard, NextCandidates[j], TRUE).tag = "ok"
          /\ Trial(NextBoard, NextCandidates[j], FALSE).tag = "ok"
    /\ confirm \/ Trial(NextBoard, NextCandidates[k], TRUE).tag \in {"ok", "contradiction"}

(* C11, the search: when a hypothesis that explore runs raises             *)
(* SolvedException, solve returns the board it carries.                    *)
SolvedHypothesisReturned ==
    (pc = "search" /\ steps < MaxExplores) =>
        \A k \in 1..Len(NextCandidates) : \A confirm \in BOOLEAN :
            (Runs(k, confirm) /\ Trial(NextBoard, NextCandidates[k], confirm).tag = "solved")
            => /\ pc' = "returned"
               /\ last'.tag = "solved"
               /\ last'.result = Trial(NextBoard, NextCandidates[k], confirm).board

(* C11, the rules: a board that solve_known_constraints returned is one on *)
(* which its last pass changed nothing, so the trials of that pass ran on  *)
(* this very board; none of them raised SolvedException, or the call would *)
(* have raised it instead of returning.                                    *)
NoSolvedTrialSwallowed ==
    (last.op = "solve_known_constraints" /\ last.tag = "ok") =>
        \A coord \in DOMAIN board.circles :
            IF board.circles[coord] = BLACK
            THEN is_done(board.cell_lines[coord])
                 \/ \A direction \in could_set(board.cell_lines[coord]) :
                       set_black_leg(board, coord, direction).tag # "solved"
            ELSE Cardinality(board.cell_lines[coord].is_set) = 2
                 => \A direction \in board.cell_lines[coord].is_set :
                       set_bent(board, move(direction, coord)).tag # "solved"

(* C11: a SolvedException is never swallowed: raised by a trial of         *)
(* apply_white or apply_black, by solve_known_constraints or by a          *)
(* hypothesis of the search, it reaches solve, which returns the board it  *)
(* carries.                                                                *)
C11_SolvedNeverSwallowed ==
    /\ [][SolvedHypothesisReturned]_vars
    /\ [](NoSolvedTrialSwallowed)
    /\ [](last.tag = "solved" /\ last.op # "solve_initial_patterns"
          => pc = "returned" /\ last.result.cell_lines = last.cell_lines)

(* A hypothesis of a later candidate raised SolvedException after pairs of *)
(* boards had been put aside, and solve returned.                          *)
C11_Witness ==
    /\ pc = "returned"
    /\ last.op = "explore"
    /\ last.evaluated > 1

(* A further full pass of the rules over every pearl of b returns a board  *)
(* equal to b.                                                             *)
Stable(b) ==
    /\ ApplyRules(Done(b), Pearls(b), 1).tag = "ok"
    /\ BoardEq(ApplyRules(Done(b), Pearls(b), 1).board, b)

(* The passes of `while old_board != board` on the way from r.             *)
RECURSIVE Passes(_, _, _)
Passes(old_board, r, n) ==
    IF r.tag # "ok" \/ BoardEq(old_board, r.board) THEN n
    ELSE Passes(r.board, ApplyRules(r, Pearls(r.board), 1), n + 1)

(* C12: solve_known_constraints ends after finitely many passes, at most   *)
(* one for each of the four directions of each cell and one more, by       *)
(* raising or by returning; and a further full pass of apply_white and     *)
(* apply_black over every pearl of the board it returns produces an equal  *)
(* board.  The same holds of the board of every Lookahead, each of which   *)
(* solve_known_constraints returned.                                       *)
C12_FixpointTerminatesStable ==
    /\ last.op = "solve_known_constraints"
       => /\ Passes(NoBoard, Done(last.before), 0) <= 4 * board.width * board.height + 1
          /\ last.tag = "ok" => Stable(last.result)
    /\ \A n \in DOMAIN tree.refs : Stable(tree.refs[n].board)

(* solve_known_constraints returned after a pass that changed the board    *)
(* was followed by another that changed it again.                          *)
C12_Witness ==
    /\ last.op = "solve_known_constraints"
    /\ last.tag = "ok"
    /\ Passes(NoBoard, Done(last.before), 0) >= 3
    /\ ~Stable(ApplyRules(Done(last.before), Pearls(last.before), 1).board)

(* The board of the node that the last explore expanded, as it was before, *)
(* the candidates of its loop and the outcomes of their two hypotheses.    *)
ExpandedBoard == last.tree.refs[last.node].board

ExpandedCandidates ==
    Candidates(ExpandedBoard, RowMajor(ExpandedBoard.width, ExpandedBoard.height), 1)

Succeeds(k, confirm) == Trial(ExpandedBoard, ExpandedCandidates[k], confirm).tag = "ok"

(* The candidates of which a hypothesis does not succeed.                  *)
Undecided == {k \in 1..Len(ExpandedCandidates) : ~(Succeeds(k, TRUE) /\ Succeeds(k, FALSE))}

(* expand returned, or raised the contradiction of the root.               *)
Expands == last.op = "explore" /\ last.tag \in {"ok", "contradiction"}

(* The outcomes of expand on the node: a dead end, the node's board        *)
(* replaced by b, and a branch on the candidates 1..n.                     *)
DeadEnd ==
    IF last.tree.refs[last.node].parent = 0
    THEN last.tag = "contradiction" /\ tree = last.tree
    ELSE /\ last.tag = "ok"
         /\ tree.refs[last.tree.pairs[last.tree.refs[last.node].parent].parent].board
               = last.tree.refs[get_sibling(last.tree, last.node)].board

Replaced(b) ==
    /\ last.tag = "ok"
    /\ tree = [last.tree EXCEPT !.refs[last.node].board = b]
    /\ tree.refs[last.node].possibilities = UNEXPLORED

BranchedOn(n) ==
    /\ last.tag = "ok"
    /\ tree.refs[last.node].board = ExpandedBoard
    /\ tree.refs[last.node].possibilities # UNEXPLORED
    /\ Len(tree.refs[last.node].possibilities) = n
    /\ \A k \in 1..n :
          LET pos == tree.pairs[tree.refs[last.node].possibilities[k]]
          IN  /\ tree.refs[pos.yes] =
                    Lookahead(Trial(ExpandedBoard, ExpandedCandidates[k], TRUE).board,
                              tree.refs[last.node].possibilities[k])
              /\ tree.refs[pos.no] =
                    Lookahead(Trial(ExpandedBoard, ExpandedCandidates[k], FALSE).board,
                              tree.refs[last.node].possibilities[k])

(* C13 as stated: the two hypotheses of the first eligible cell-direction  *)
(* decide among three outcomes: both fail, a dead end; one succeeds, the   *)
(* board is replaced; both succeed, one pair with two unexplored children. *)
C13_FirstPairDecides ==
    (Expands /\ ExpandedCandidates # <<>>) =>
        CASE ~Succeeds(1, TRUE) /\ ~Succeeds(1, FALSE) -> DeadEnd
          [] Succeeds(1, TRUE) /\ ~Succeeds(1, FALSE) ->
                Replaced(Trial(ExpandedBoard, ExpandedCandidates[1], TRUE).board)
          [] ~Succeeds(1, TRUE) /\ Succeeds(1, FALSE) ->
                Replaced(Trial(ExpandedBoard, ExpandedCandidates[1], FALSE).board)
          [] OTHER -> BranchedOn(1)

(* C13, amended: expand has three outcomes, decided by the first eligible  *)
(* cell-direction whose two hypotheses do not both succeed: neither        *)
(* succeeds (or the board has no eligible cell-direction), a dead end: the *)
(* root raises ContradictionException, any other node is pruned; exactly   *)
(* one succeeds, the node's board is replaced by that board and the node   *)
(* stays unexplored without children; both succeed for every eligible      *)
(* cell-direction, the node is branched with one pair for each, of two     *)
(* unexplored children holding the confirm-board and the exclude-board.    *)
C13_FirstUndecidedPairDecides ==
    Expands =>
        IF ExpandedCandidates = <<>> THEN DeadEnd
        ELSE IF Undecided = {} THEN BranchedOn(Len(ExpandedCandidates))
        ELSE LET k == CHOOSE i \in Undecided : \A j \in Undecided : i <= j
             IN  CASE ~Succeeds(k, TRUE) /\ ~Succeeds(k, FALSE) -> DeadEnd
                   [] Succeeds(k, TRUE) ->
                         Replaced(Trial(ExpandedBoard, ExpandedCandidates[k], TRUE).board)
                   [] OTHER ->
                         Replaced(Trial(ExpandedBoard, ExpandedCandidates[k], FALSE).board)

(* A node had its board replaced because of a cell-direction that came     *)
(* after others whose hypotheses both succeeded.                           *)
C13_Witness ==
    /\ Expands
    /\ last.kind = "certain"
    /\ Undecided # {}
    /\ 1 \notin Undecided

(* The Refs that explore's queue can reach, level by level, and the        *)
(* PossibilityPairs they hold.                                             *)
Held(t, n) ==
    IF t.refs[n].possibilities = UNEXPLORED THEN {}
    ELSE {t.refs[n].possibilities[k] : k \in DOMAIN t.refs[n].possibilities}

RECURSIVE Reach(_, _, _)
Reach(t, level, acc) ==
    IF level = {} THEN acc
    ELSE Reach(t, UNION {{t.pairs[p].yes, t.pairs[p].no} :
                            p \in UNION {Held(t, n) : n \in level}},
               acc \cup level)

LivePairs(t) == UNION {Held(t, n) : n \in Reach(t, {1}, {})}

(* The last explore pruned: it expanded a node below the root and found a  *)
(* dead end.  The pair above the node, the node's sibling in it and the    *)
(* Ref above the pair, all in the tree as it was before.                   *)
Prunes ==
    /\ last.op = "explore"
    /\ last.tag = "ok"
    /\ last.kind = "list"
    /\ last.value = <<>>

PrunedPair == last.tree.refs[last.node].parent

PrunedSibling ==
    IF last.tree.pairs[PrunedPair].yes = last.node
    THEN last.tree.pairs[PrunedPair].no
    ELSE last.tree.pairs[PrunedPair].yes

Grandparent == last.tree.pairs[PrunedPair].parent

(* C14: after a prune the Ref above the pruned node's pair holds the       *)
(* sibling's board and possibilities with the parent link it had itself,   *)
(* the pair is out of reach of the root, and every pair the sibling held   *)
(* has the Ref above as its parent.                                        *)
C14_PruneSplicesSibling ==
    Prunes =>
        /\ tree.refs[Grandparent].board = last.tree.refs[PrunedSibling].board
        /\ tree.refs[Grandparent].possibilities = last.tree.refs[PrunedSibling].possibilities
        /\ tree.refs[Grandparent].parent = last.tree.refs[Grandparent].parent
        /\ PrunedPair \notin LivePairs(tree)
        /\ \A p \in Held(last.tree, PrunedSibling) :
              /\ tree.pairs[p].parent = Grandparent
              /\ p \in LivePairs(tree)

(* A prune whose sibling had been expanded and held pairs of its own.      *)
C14_Witness ==
    /\ Prunes
    /\ Held(last.tree, PrunedSibling) # {}

(* The eligible cell-directions of board b under the mask Right, Down.     *)
Eligible(b) ==
    {c \in (DOMAIN b.cell_lines) \X {"Right", "Down"} : c[2] \in could_set(b.cell_lines[c[1]])}

(* C15 as stated: when both hypotheses of the first eligible               *)
(* cell-direction succeed, the node gets exactly one pair, for that        *)
(* cell-direction, and no later hypothesis is evaluated.                   *)
C15_FirstPairOnly ==
    (Expands /\ ExpandedCandidates # <<>> /\ Succeeds(1, TRUE) /\ Succeeds(1, FALSE))
    => BranchedOn(1) /\ last.evaluated = 1

(* C15, amended: expand takes the eligible cell-directions in order        *)
(* (row-major over the cells, restricted to the masked directions Right    *)
(* and Down) and evaluates the two hypotheses of each until one of them    *)
(* does not give two boards; when both hypotheses succeed for every        *)
(* eligible cell-direction, the node materializes exactly one pair for     *)
(* each, in that order, the first child with the direction confirmed and   *)
(* the second with it excluded.                                            *)
C15_EveryEligiblePairInOrder ==
    Expands =>
        /\ \A k \in 1..Len(ExpandedCandidates) : ExpandedCandidates[k] \in Eligible(ExpandedBoard)
        /\ \A j, k \in 1..Len(ExpandedCandidates) :
              j < k => /\ ExpandedCandidates[j] # ExpandedCandidates[k]
                       /\ ExpandedCandidates[j][1][2] * ExpandedBoard.width
                              + ExpandedCandidates[j][1][1]
                          <= ExpandedCandidates[k][1][2] * ExpandedBoard.width
                              + ExpandedCandidates[k][1][1]
        /\ IF last.kind = "list" /\ last.value # <<>>
           THEN /\ last.evaluated = Cardinality(Eligible(ExpandedBoard))
                /\ Len(tree.refs[last.node].possibilities) = Cardinality(Eligible(ExpandedBoard))
                /\ \A k \in 1..Len(tree.refs[last.node].possibilities) :
                      LET pos == tree.pairs[tree.refs[last.node].possibilities[k]]
                          c == ExpandedCandidates[k]
                      IN  /\ c[2] \in tree.refs[pos.yes].board.cell_lines[c[1]].is_set
                          /\ c[2] \in tree.refs[pos.no].board.cell_lines[c[1]].cannot_set
           ELSE \/ ExpandedCandidates = <<>>
                \/ /\ last.evaluated \in Undecided
                   /\ \A j \in Undecided : last.evaluated <= j

(* A node branched on several cell-directions at once.                     *)
C15_Witness ==
    /\ Expands
    /\ last.kind = "list"
    /\ Len(last.value) > 1
    /\ Len(tree.refs[last.node].possibilities) = Len(last.value)

(* The way from the root down to Ref n, read off the parent links: at each *)
(* level the place of the child among the children of the Ref above it,    *)
(* the yes and the no of its first pair, then those of its second, ...     *)
RECURSIVE Path(_, _)
Path(t, n) ==
    IF t.refs[n].parent = 0 THEN <<>>
    ELSE LET pos == t.refs[n].parent
             above == t.pairs[pos].parent
             k == CHOOSE i \in DOMAIN t.refs[above].possibilities :
                      t.refs[above].possibilities[i] = pos
         IN  Path(t, above) \o <<IF t.pairs[pos].yes = n THEN 2 * k - 1 ELSE 2 * k>>

(* Breadth-first order: level by level, and within a level left to right.  *)
Before(p, q) ==
    \/ Len(p) < Len(q)
    \/ /\ Len(p) = Len(q)
       /\ \E i \in DOMAIN p : p[i] < q[i] /\ \A j \in 1..(i - 1) : p[j] = q[j]

(* What one turn of explore did to the tree, the node it names being       *)
(* last'.node: the node was the first unexplored one in breadth-first      *)
(* order, and nothing but that node changed, or, in a prune, nothing but   *)
(* the Ref above its pair, the sibling that Ref now shares, and the parent *)
(* of the pairs the sibling held.                                          *)
ExpandsFirstUnexplored ==
    (pc = "search" /\ last'.op = "explore" /\ steps' = steps + 1) =>
        /\ last'.node \in Reach(tree, {1}, {})
        /\ tree.refs[last'.node].possibilities = UNEXPLORED
        /\ \A m \in Reach(tree, {1}, {}) \ {last'.node} :
              tree.refs[m].possibilities = UNEXPLORED
              => Before(Path(tree, last'.node), Path(tree, m))
        /\ DOMAIN tree.refs \subseteq DOMAIN tree'.refs
        /\ DOMAIN tree.pairs \subseteq DOMAIN tree'.pairs
        /\ IF last'.tag = "ok" /\ last'.kind = "list" /\ last'.value = <<>>
           THEN LET pos == tree.pairs[tree.refs[last'.node].parent]
                    sibling == IF pos.yes = last'.node THEN pos.no ELSE pos.yes
                IN  /\ \A m \in DOMAIN tree.refs \ {pos.parent, sibling} :
                          tree'.refs[m] = tree.refs[m]
                    /\ \A p \in DOMAIN tree.pairs \ Held(tree, sibling) :
                          tree'.pairs[p] = tree.pairs[p]
                    /\ \A p \in Held(tree, sibling) :
                          /\ tree'.pairs[p].yes = tree.pairs[p].yes
                          /\ tree'.pairs[p].no = tree.pairs[p].no
           ELSE /\ \A m \in DOMAIN tree.refs \ {last'.node} : tree'.refs[m] = tree.refs[m]
                /\ \A p \in DOMAIN tree.pairs : tree'.pairs[p] = tree.pairs[p]
                /\ last'.tag # "ok" => tree' = tree

(* C16: each call of explore expands exactly one node, the first           *)
(* unexplored Lookahead in breadth-first order from the root, and changes  *)
(* the board or the possibilities of no other node, except through the     *)
(* prune splice of that expansion.                                         *)
C16_ExploreExpandsFirstUnexplored == [][ExpandsFirstUnexplored]_vars

(* explore expanded the second child of a pair, after the first child had  *)
(* been expanded and held pairs of its own.                                *)
C16_Witness ==
    /\ last.op = "explore"
    /\ last.tag = "ok"
    /\ last.tree.refs[last.node].parent # 0
    /\ last.tree.pairs[last.tree.refs[last.node].parent].no = last.node
    /\ Held(last.tree, last.tree.pairs[last.tree.refs[last.node].parent].yes) # {}

(* The cell map in which exactly the edges of E are confirmed, an edge     *)
(* being the set of the two cells it joins.                                *)
Drawn(b, E) ==
    [c \in DOMAIN b.cell_lines |->
        CellLine({d \in Direction : {c, move(d, c)} \in E},
                 {d \in Direction : {c, move(d, c)} \notin E})]

(* The pearls of b admit a valid Masyu loop: some set of edges is one      *)
(* closed loop, through every pearl, that obeys the rule of each pearl.    *)
Solvable(b) ==
    \E E \in SUBSET {{c, move(d, c)} : c \in DOMAIN b.cell_lines, d \in {"Right", "Down"}} :
        /\ \A e \in E : e \subseteq DOMAIN b.cell_lines
        /\ \A c \in DOMAIN b.cell_lines : Cardinality(Drawn(b, E)[c].is_set) \in {0, 2}
        /\ {c \in DOMAIN b.cell_lines : Drawn(b, E)[c].is_set # {}} \in Loops(Drawn(b, E))
        /\ MasyuSolution([b EXCEPT !.cell_lines = Drawn(b, E)])

Advance ==
    /\ pc \in {"patterns", "solve", "search"}
    /\ pc = "search" => steps < MaxExplores
    /\ pc' \in {"solve", "search", "returned", "raised", "none"}
    /\ steps' \in {steps, steps + 1}
    /\ pc' # pc \/ steps' # steps

FairSearch == SpecSearch /\ WF_<<pc, steps>>(Advance)

(* solve has returned, or an exception has left it.                        *)
Terminated == pc \in {"returned", "raised", "none"}

(* The cell-directions of board b that are neither confirmed nor excluded. *)
Open(b) ==
    Cardinality({c \in (DOMAIN b.cell_lines) \X Direction :
                    c[2] \in could_set(b.cell_lines[c[1]])})

(* A turn of explore that returned True changed the tree, and in a way     *)
(* that cannot go on for ever: the node's board was replaced by one with   *)
(* fewer open cell-directions, or the node got children whose boards have  *)
(* fewer than its own, or Refs went out of reach of the root and none came *)
(* within reach.                                                           *)
Progresses ==
    (pc = "search" /\ last'.op = "explore" /\ steps' = steps + 1 /\ last'.tag = "ok") =>
        /\ tree' # tree
        /\ CASE last'.kind = "certain" ->
                   Open(tree'.refs[last'.node].board) < Open(tree.refs[last'.node].board)
             [] last'.kind = "list" /\ last'.value # <<>> ->
                   /\ Held(tree', last'.node) # {}
                   /\ \A p \in Held(tree', last'.node) :
                         /\ Open(tree'.refs[tree'.pairs[p].yes].board)
                               < Open(tree.refs[last'.node].board)
                         /\ Open(tree'.refs[tree'.pairs[p].no].board)
                               < Open(tree.refs[last'.node].board)
             [] OTHER ->
                   /\ Reach(tree', {1}, {}) \subseteq Reach(tree, {1}, {})
                   /\ Reach(tree', {1}, {}) # Reach(tree, {1}, {})

(* C18: solve terminates: the loop of explore calls ends, with a solved    *)
(* board returned or with the ContradictionException of the root, and no   *)
(* explore returns True without having changed the tree.                   *)
C18_SolveTerminates ==
    /\ <>Terminated
    /\ [][Progresses]_vars
    /\ []((Terminated /\ last.op = "explore") => last.tag \in {"solved", "contradiction"})

(* solve returned after a run of turns in which a node was pruned.         *)
C18_Witness ==
    /\ pc = "returned"
    /\ steps >= 3
    /\ last.tree.refs[1].parent = 0
    /\ \E n \in DOMAIN last.tree.refs :
          n \notin Reach(last.tree, {1}, {}) /\ last.tree.refs[n].possibilities # UNEXPLORED

(* C19: a run on a puzzle whose pearls admit no valid loop ends with a     *)
(* ContradictionException of the root that is handled: no board is         *)
(* produced as solved, no other failure (AssertionError, KeyError) is      *)
(* raised, and nothing is left to propagate out of main.                   *)
C19_UnsolvableEndsInHandledContradiction ==
    (Terminated /\ ~Solvable(board))
    => /\ last.tag = "contradiction"
       /\ pc # "raised"

(* The pre-pass has just run on a board where the pearls at c and at the   *)
(* next two cells of its row are white.                                    *)
WhiteRow(c) ==
    /\ last.op = "solve_initial_patterns"
    /\ \A k \in 0..2 : CircleAt(last.before.circles, <<c[1] + k, c[2]>>) = WHITE

OneRowOfWhites ==
    /\ last.before.width = 3
    /\ last.before.height = 1
    /\ WhiteRow(<<0, 0>>)

(* C20 as stated: on the board of one row of three white pearls the        *)
(* pre-pass succeeds, and leaves the horizontal line confirmed through the *)
(* three cells and exactly one perpendicular edge confirmed at the first.  *)
C20_OneRowResolvedAlongRow ==
    OneRowOfWhites
    => /\ last.tag = "ok"
       /\ \A k \in 0..2 : {"Left", "Right"} \subseteq board.cell_lines[<<k, 0>>].is_set
       /\ Cardinality(board.cell_lines[<<0, 0>>].is_set \cap {"Up", "Down"}) = 1

(* C20, amended: three white pearls in a row are resolved across the row.  *)
(* On the board of one row of three white pearls the pre-pass raises       *)
(* ContradictionException from its first call, the confirmation of Up at   *)
(* the first cell, and yields no board; wherever the pre-pass succeeds on  *)
(* three whites in a row, each of the three cells has exactly Up and Down  *)
(* confirmed.                                                              *)
C20_WhiteRowResolvedAcrossRow ==
    /\ OneRowOfWhites
       => /\ last.tag = "contradiction"
          /\ pc = "raised"
          /\ last.cell_lines = last.before.cell_lines
          /\ board = last.before
    /\ \A c \in DOMAIN last.before.circles :
          (WhiteRow(c) /\ last.tag = "ok")
          => \A k \in 0..2 : board.cell_lines[<<c[1] + k, c[2]>>].is_set = {"Up", "Down"}

(* The pre-pass has run on the board of one row of three white pearls.     *)
C20_Witness ==
    /\ OneRowOfWhites
    /\ last.tag = "contradiction"
    /\ "Up" \in last.before.cell_lines[<<0, 0>>].cannot_set

(* The run on a puzzle without pearls has ended.                           *)
NoPearlsEnded == Terminated /\ DOMAIN board.circles = {}

(* C21 as stated: the run on a board with no pearls ends with the          *)
(* ContradictionException of the root, and never with a solved board.      *)
C21_NoPearlsContradiction ==
    NoPearlsEnded
    => /\ last.tag = "contradiction"
       /\ last.op = "explore"
       /\ pc # "returned"

(* C21, amended: on a board with no pearls of one row or one column, where *)
(* no loop fits, the run ends with the ContradictionException of the root; *)
(* on every other board with no pearls solve returns a board that holds a  *)
(* closed loop, which covers the empty set of pearls.                      *)
C21_NoPearlsAnyLoopAccepted ==
    NoPearlsEnded
    => IF board.width = 1 \/ board.height = 1
       THEN /\ last.tag = "contradiction"
            /\ last.op = "explore"
            /\ last.node = 1
            /\ pc = "raised"
       ELSE /\ last.tag = "solved"
            /\ last.op = "explore"
            /\ pc = "returned"
            /\ Loops(last.result.cell_lines) # {}

(* solve has returned a loop on a board with no pearls.                    *)
C21_Witness ==
    /\ NoPearlsEnded
    /\ pc = "returned"
    /\ board.width >= 2
    /\ board.height >= 2
    /\ Loops(last.result.cell_lines) # {}

----------------------------------------------------------------------------
(* Properties of get_through and get_bent, checked under SpecCell.         *)

(* The pairs of directions a line through a cell can take.                 *)
StraightPairs == {P \in SUBSET Direction : Cardinality(P) = 2 /\ IsOppositePair(P)}

BentPairs == {P \in SUBSET Direction : Cardinality(P) = 2 /\ ~IsOppositePair(P)}

(* The pair P holds every confirmed direction of c and no excluded one.    *)
Consistent(P, c) == c.is_set \subseteq P /\ P \cap c.cannot_set = {}

(* C22: on every CellLine reached from the empty one, get_through raises   *)
(* ContradictionException exactly when no opposite pair of directions      *)
(* holds every confirmed direction and no excluded one; when it succeeds   *)
(* on a cell of which something is known the result is done, with an       *)
(* opposite pair confirmed; and it returns the cell unchanged only when    *)
(* nothing is known or the cell already holds an opposite pair.            *)
C22_GetThroughForcesStraight ==
    /\ get_through(cell).tag \in {"ok", "contradiction"}
    /\ get_through(cell).tag = "contradiction"
          <=> ~ \E P \in StraightPairs : Consistent(P, cell)
    /\ (get_through(cell).tag = "ok" /\ cell # EmptyCell)
          => /\ is_done(get_through(cell).cell)
             /\ IsStraight(get_through(cell).cell)
    /\ get_through(cell) = Return(cell) => (cell = EmptyCell \/ IsStraight(cell))

(* get_through derived the axis of the line from one excluded direction.   *)
C22_Witness ==
    /\ cell_last.op = "get_through"
    /\ cell_last.tag = "ok"
    /\ cell_last.before.is_set = {}
    /\ Cardinality(cell_last.before.cannot_set) = 1
    /\ IsStraight(cell)
    /\ cell.cannot_set = Direction \ cell.is_set

(* C23: on every CellLine reached from the empty one, get_bent raises      *)
(* ContradictionException exactly when no pair of perpendicular directions *)
(* holds every confirmed direction and no excluded one; when it succeeds   *)
(* the result has no opposite pair confirmed, and every direction it newly *)
(* confirms (excludes) is in (out of) every perpendicular pair consistent  *)
(* with the cell it was given.                                             *)
C23_GetBentForcesBend ==
    /\ get_bent(cell).tag \in {"ok", "contradiction"}
    /\ get_bent(cell).tag = "contradiction"
          <=> ~ \E P \in BentPairs : Consistent(P, cell)
    /\ get_bent(cell).tag = "ok"
          => /\ ~IsStraight(get_bent(cell).cell)
             /\ \A P \in BentPairs :
                   Consistent(P, cell)
                   => /\ get_bent(cell).cell.is_set \ cell.is_set \subseteq P
                      /\ (get_bent(cell).cell.cannot_set \ cell.cannot_set) \cap P = {}

(* get_bent confirmed the direction opposite the only excluded one.        *)
C23_Witness ==
    /\ cell_last.op = "get_bent"
    /\ cell_last.tag = "ok"
    /\ cell_last.before.is_set = {}
    /\ Cardinality(cell_last.before.cannot_set) = 1
    /\ Cardinality(cell.is_set) = 1
    /\ \A d \in cell.is_set : opposite(d) \in cell_last.before.cannot_set

----------------------------------------------------------------------------
(* Properties of the rules, checked under SpecRules.                       *)

(* apply_white was called on a board where set_through confirms both legs  *)
(* of the pearl; BendTrial(d) is its set_bent on the neighbour towards d.  *)
WhiteStraight == set_through(last.before, last.coord)

WhiteLegs == WhiteStraight.board.cell_lines[last.coord].is_set

WhiteCase ==
    /\ last.op = "apply_white"
    /\ WhiteStraight.tag = "ok"
    /\ Cardinality(WhiteLegs) = 2

BendTrial(d) == set_bent(WhiteStraight.board, move(d, last.coord))

BendFails(d) == BendTrial(d).tag = "contradiction"

(* C24 as stated: set_bent failing on both neighbours makes apply_white    *)
(* raise ContradictionException; failing on exactly one makes it return    *)
(* the board in which the other neighbour is bent; failing on neither      *)
(* makes it return the straight-through board as it is.                    *)
C24_WhiteBendTrials ==
    WhiteCase
    => /\ (\A d \in WhiteLegs : BendFails(d)) => last.tag = "contradiction"
       /\ \A d, e \in WhiteLegs :
             (BendFails(d) /\ ~BendFails(e))
             => /\ last.tag = "ok"
                /\ BendTrial(e).tag = "ok"
                /\ last.result = BendTrial(e).board
       /\ (\A d \in WhiteLegs : ~BendFails(d))
             => /\ last.tag = "ok"
                /\ last.result = WhiteStraight.board

(* C24, amended: the three cases hold when each trial either returns or    *)
(* raises ContradictionException; a trial that raises anything else, a     *)
(* SolvedException in particular, ends apply_white with what it raised.    *)
C24_WhiteBendTrialsOrSolved ==
    WhiteCase
    => IF \A d \in WhiteLegs : BendTrial(d).tag \in {"ok", "contradiction"}
       THEN /\ (\A d \in WhiteLegs : BendFails(d)) => last.tag = "contradiction"
            /\ \A d, e \in WhiteLegs :
                  (BendFails(d) /\ ~BendFails(e))
                  => /\ last.tag = "ok"
                     /\ last.result = BendTrial(e).board
            /\ (\A d \in WhiteLegs : ~BendFails(d))
                  => /\ last.tag = "ok"
                     /\ last.result = WhiteStraight.board
       ELSE \E d \in WhiteLegs :
               /\ BendTrial(d).tag \notin {"ok", "contradiction"}
               /\ last.tag = BendTrial(d).tag
               /\ last.result = BendTrial(d).board

(* apply_white bent the one neighbour that could bend.                     *)
C24_Witness ==
    /\ WhiteCase
    /\ \E d, e \in WhiteLegs : BendFails(d) /\ BendTrial(e).tag = "ok"
    /\ last.tag = "ok"
    /\ last.result # WhiteStraight.board

(* apply_black was called; BlackBent is its set_bent, BlackExtended the    *)
(* board after the set_through of each neighbour a leg already points to,  *)
(* and LegTrial(d) the hypothetical set_black_leg towards d on that board. *)
BlackBent == set_bent(last.before, last.coord)

BlackExtended ==
    IF BlackBent.tag # "ok" THEN BlackBent
    ELSE Chain(BlackBent,
               ThroughEach(last.coord, Iter(BlackBent.board.cell_lines[last.coord].is_set)), 1)

BlackCase ==
    /\ last.op = "apply_black"
    /\ BlackExtended.tag = "ok"
    /\ ~is_done(BlackExtended.board.cell_lines[last.coord])

LegTrial(d) == set_black_leg(BlackExtended.board, last.coord, d)

Viable(d) == LegTrial(d).tag = "ok"

(* On board b the pearl has the leg d: d is confirmed at the pearl and the *)
(* line runs straight through the neighbour towards d.                     *)
Committed(d, b) ==
    /\ d \in b.cell_lines[last.coord].is_set
    /\ b.cell_lines[move(d, last.coord)].is_set = {d, opposite(d)}

(* The trial towards d succeeds and the trial towards its opposite fails.   *)
Mandatory(d) == Viable(d) /\ ~Viable(opposite(d))

(* C25: when apply_black, at a pearl that is not done after set_bent and   *)
(* the extension of its legs, returns a board, the pearl has the leg d on  *)
(* it exactly when the trial set_black_leg towards d succeeds and the      *)
(* trial towards the opposite of d does not; of two opposite directions    *)
(* that are both viable neither is a leg.  apply_black ends otherwise with *)
(* a SolvedException, or with the ContradictionException of the second of  *)
(* two mandatory legs, raised on the board that has the first.             *)
C25_BlackLegCommittedIffMandatory ==
    BlackCase
    => /\ last.tag \in {"ok", "solved", "contradiction"}
       /\ last.tag = "ok"
             => \A d \in Direction : Committed(d, last.result) <=> Mandatory(d)
       /\ last.tag = "contradiction"
             => \E d, e \in Direction :
                   /\ d # e
                   /\ Mandatory(d)
                   /\ Mandatory(e)
                   /\ set_black_leg(LegTrial(d).board, last.coord, e).tag = "contradiction"

(* apply_black committed a new leg while two opposite directions were both *)
(* viable.                                                                 *)
C25_Witness ==
    /\ BlackCase
    /\ last.tag = "ok"
    /\ \E d \in Direction :
          /\ Viable(d)
          /\ ~Viable(opposite(d))
          /\ d \notin BlackExtended.board.cell_lines[last.coord].is_set
          /\ Committed(d, last.result)
    /\ \E d \in Direction :
          /\ Viable(d)
          /\ Viable(opposite(d))
          /\ ~Committed(d, last.result)

----------------------------------------------------------------------------
(* Properties of the pre-pass, checked under SpecSearch.                   *)

(* The pre-pass has returned a board on a puzzle with black pearls at c    *)
(* and at its neighbour towards d.                                         *)
BlackPair(c, d) ==
    /\ last.op = "solve_initial_patterns"
    /\ last.tag = "ok"
    /\ CircleAt(last.before.circles, c) = BLACK
    /\ CircleAt(last.before.circles, move(d, c)) = BLACK

(* On the board the pre-pass returned, d is confirmed at c and the line    *)
(* runs straight on through the neighbour of c towards d.                  *)
Leg(c, d) ==
    /\ d \in board.cell_lines[c].is_set
    /\ move(d, c) \in DOMAIN board.cell_lines
    /\ {d, opposite(d)} \subseteq board.cell_lines[move(d, c)].is_set

(* C26 as stated: of two adjacent black pearls each confirms the direction *)
(* towards the other, and each has its leg away from the other.            *)
C26_AdjacentBlacksJoined ==
    \A c \in DOMAIN last.before.circles : \A d \in {"Right", "Down"} :
        BlackPair(c, d)
        => /\ d \in board.cell_lines[c].is_set
           /\ opposite(d) \in board.cell_lines[move(d, c)].is_set
           /\ Leg(c, opposite(d))
           /\ Leg(move(d, c), d)

(* C26, amended: of two adjacent black pearls each confirms the direction  *)
(* away from the other and the line straight through the neighbour on that *)
(* side; the edge between the two pearls is confirmed only where the edges *)
(* of the board had excluded both other directions of the pearl.           *)
C26_AdjacentBlacksApart ==
    \A c \in DOMAIN last.before.circles : \A d \in {"Right", "Down"} :
        BlackPair(c, d)
        => /\ Leg(c, opposite(d))
           /\ Leg(move(d, c), d)
           /\ d \in board.cell_lines[c].is_set
                 => Direction \ {d, opposite(d)} \subseteq last.before.cell_lines[c].cannot_set

(* The pre-pass has set the legs of two adjacent black pearls and left the *)
(* edge between them open.                                                 *)
C26_Witness ==
    \E c \in DOMAIN last.before.circles : \E d \in {"Right", "Down"} :
        /\ BlackPair(c, d)
        /\ Leg(c, opposite(d))
        /\ Leg(move(d, c), d)
        /\ d \in could_set(board.cell_lines[c])

----------------------------------------------------------------------------
(* Properties of the segment tracker, checked under SpecTrack.             *)

(* What evolve computes for the last call: the extension of the segments   *)
(* the board had, then the discovery over what the extension left.         *)
LastExtension == _extend_line_segments(last.before.line_segments, last.cell_lines)

LastTracking ==
    Discover(LastExtension, last.cell_lines,
             RowMajor(last.before.width, last.before.height))

LoopRaised ==
    /\ last.op # "new"
    /\ last.stage = "segments"
    /\ last.tag \in {"solved", "contradiction"}

(* C27: when the tracker raises the loop-closed condition, from the        *)
(* extension (also after merging other segments on the way) or from the    *)
(* discovery, the set it carries is exactly the set of cells of one closed *)
(* cycle of confirmed edges of the propagated cell map.                    *)
C27_LoopSetIsTheCycle ==
    LoopRaised
        => /\ LastTracking.tag = "loop"
           /\ last.loop = LastTracking.loop
           /\ last.loop \in Loops(last.cell_lines)

(* The extension raised the loop after it had merged another segment: two  *)
(* segments of the board before the call lie on the loop, and one of them  *)
(* has a cell that is not an end.                                          *)
C27_Witness ==
    /\ LoopRaised
    /\ LastExtension.tag = "loop"
    /\ \E i, j \in 1..Len(last.before.line_segments) :
          /\ i # j
          /\ last.before.line_segments[i].contains \subseteq last.loop
          /\ last.before.line_segments[j].contains \subseteq last.loop
          /\ Cardinality(last.before.line_segments[j].contains) >= 3

(* C28: loop detection is complete.  No board a mutator has returned (nor  *)
(* the board built at the start) holds a closed cycle of confirmed edges,  *)
(* and every call whose propagation reaches the tracker with a cell map    *)
(* that closes a cycle raises the loop-closed condition in that call.      *)
C28_LoopDetectionComplete ==
    /\ Loops(board.cell_lines) = {}
    /\ (last.stage \in {"segments", "done"} /\ Loops(last.cell_lines) # {})
          => /\ LoopRaised
             /\ LastTracking.tag = "loop"

(* A call whose last propagated edge closes a cycle made of segments the   *)
(* board already had: nothing is left for the discovery to find.           *)
C28_Witness ==
    /\ LoopRaised
    /\ Loops(last.cell_lines) # {}
    /\ Loops(last.before.cell_lines) = {}
    /\ last.loop \subseteq UnionAll(last.before.line_segments)
    /\ steps >= 2

(* What _discover_line_segments finds on the cell map of b alone.          *)
Rediscovered(b) ==
    _discover_line_segments(b.cell_lines, {}, RowMajor(b.width, b.height))

ContainsFamily(segs) == {segs[i].contains : i \in 1..Len(segs)}

(* The cells of a set that have exactly one confirmed direction.           *)
OpenEnds(K, cell_lines) == {c \in K : Cardinality(cell_lines[c].is_set) = 1}

(* C29: on every board held, the segments the tracker has maintained       *)
(* cover the same sets of cells as a discovery from scratch on the cell    *)
(* map, the sets are pairwise disjoint, and the start and end of each      *)
(* segment are the two cells of its set with exactly one confirmed         *)
(* direction.                                                              *)
C29_SegmentsAgreeWithRediscovery ==
    /\ Rediscovered(board).tag = "ok"
    /\ ContainsFamily(board.line_segments) = ContainsFamily(Rediscovered(board).segs)
    /\ \A i, j \in 1..Len(board.line_segments) :
          i # j => board.line_segments[i].contains
                      \cap board.line_segments[j].contains = {}
    /\ \A i \in 1..Len(board.line_segments) :
          /\ board.line_segments[i].start # board.line_segments[i].end
          /\ {board.line_segments[i].start, board.line_segments[i].end}
                = OpenEnds(board.line_segments[i].contains, board.cell_lines)

(* A call that merged two segments and returned a board whose segment list *)
(* is not the list a discovery from scratch builds.                        *)
C29_Witness ==
    /\ last.tag = "ok"
    /\ Len(board.line_segments) < Len(last.before.line_segments)
    /\ board.line_segments # Rediscovered(board).segs

----------------------------------------------------------------------------
(* Properties of the lattice, checked under SpecRules.                     *)

(* Every cell of b2 confirms and excludes at least what it does in b1.     *)
Refines(b1, b2) ==
    /\ DOMAIN b2.cell_lines = DOMAIN b1.cell_lines
    /\ \A c \in DOMAIN b1.cell_lines :
          /\ b1.cell_lines[c].is_set \subseteq b2.cell_lines[c].is_set
          /\ b1.cell_lines[c].cannot_set \subseteq b2.cell_lines[c].cannot_set

SamePuzzle(b1, b2) ==
    /\ b2.width = b1.width
    /\ b2.height = b1.height
    /\ b2.circles = b1.circles

(* C30: the board returned by a successful set_direction,                  *)
(* disallow_direction, set_through, set_bent, apply_white, apply_black or  *)
(* solve_known_constraints confirms and excludes at every cell at least    *)
(* what the board it was called on did, and has the same width, height and *)
(* pearls.                                                                 *)
C30_LatticeMonotone ==
    last.tag = "ok"
        => /\ board = last.result
           /\ Refines(last.before, last.result)
           /\ SamePuzzle(last.before, last.result)

(* solve_known_constraints has returned a board that adds to the cells of  *)
(* a board on which a mutator had already acted.                           *)
C30_Witness ==
    /\ last.op = "solve_known_constraints"
    /\ last.tag = "ok"
    /\ steps >= 2
    /\ last.before.cell_lines # NewBoard(board.width, board.height, board.circles).cell_lines
    /\ Cardinality({c \in DOMAIN board.cell_lines :
                       board.cell_lines[c] # last.before.cell_lines[c]}) >= 3

----------------------------------------------------------------------------
(* Properties of the search tree, checked under SpecDeep.                  *)

(* The last turn of explore returned True: it expanded a node.             *)
Explored ==
    /\ last.op = "explore"
    /\ last.tag = "ok"

(* The Refs in reach of the root before and after the last turn.           *)
StillReachable == Reach(last.tree, {1}, {}) \cap Reach(tree, {1}, {})

(* C31: across a turn of explore no board in the tree loses information.   *)
(* The root's board after the turn confirms and excludes at every cell at  *)
(* least what it did before, when a certainty replaces the board and when  *)
(* a dead end splices a sibling in, at any depth; and so does the board of *)
(* every Ref that is in reach of the root before and after the turn.       *)
C31_TreeBoardsNeverLoseInformation ==
    Explored
        => /\ Refines(last.tree.refs[1].board, tree.refs[1].board)
           /\ SamePuzzle(last.tree.refs[1].board, tree.refs[1].board)
           /\ \A n \in StillReachable :
                 /\ Refines(last.tree.refs[n].board, tree.refs[n].board)
                 /\ SamePuzzle(last.tree.refs[n].board, tree.refs[n].board)

(* A dead end two pairs below the root: the Ref right below the root, in   *)
(* reach before and after, takes the sibling's board, which adds to its    *)
(* own.                                                                    *)
C31_Witness ==
    /\ Prunes
    /\ Grandparent # 1
    /\ Grandparent \in StillReachable
    /\ tree.refs[Grandparent].board # last.tree.refs[Grandparent].board

(* What _validate_lookahead_state asserts of the tree below the root, with *)
(* the root's parent and the possibility lists: every pair a reachable Ref *)
(* holds names that Ref as its parent, and both children of the pair name  *)
(* the pair as theirs.                                                     *)
WellFormed(t) ==
    /\ t.refs[1].parent = 0
    /\ \A n \in Reach(t, {1}, {}) :
          t.refs[n].possibilities # UNEXPLORED
              => /\ t.refs[n].possibilities # <<>>
                 /\ \A p \in Held(t, n) :
                       /\ t.pairs[p].parent = n
                       /\ t.refs[t.pairs[p].yes].parent = p
                       /\ t.refs[t.pairs[p].no].parent = p

(* Pair p came to its parent by a splice: the Ref that held it before      *)
(* still does, out of reach of the root.                                   *)
SplicedPair(t, p) ==
    \E s \in 1..Len(t.refs) : s # t.pairs[p].parent /\ p \in Held(t, s)

(* Every Ref of R below the root has a pair above it, get_sibling finds    *)
(* the other child of that pair, and the Ref above the pair is in R.       *)
Linked(t, R) ==
    \A n \in R \ {1} :
        /\ t.refs[n].parent \in DOMAIN t.pairs
        /\ {n, get_sibling(t, n)}
              = {t.pairs[t.refs[n].parent].yes, t.pairs[t.refs[n].parent].no}
        /\ t.pairs[t.refs[n].parent].parent \in R

(* C32: the search tree is well formed from the moment solve makes the     *)
(* root and after every expand, prune splices included: the root has no    *)
(* parent, a branched node in reach of the root holds at least one pair,   *)
(* each pair it holds has it as parent and each child of the pair has the  *)
(* pair as parent.  So what expand asserts below the root holds of every   *)
(* node it can be called on: the node has a pair above, get_sibling finds  *)
(* the other child of that pair, and the Ref above the pair is in reach of *)
(* the root.                                                               *)
C32_TreeWellFormed ==
    tree # NoTree
        => /\ WellFormed(tree)
           /\ Linked(tree, Reach(tree, {1}, {}))

(* A dead end below a pair that an earlier dead end had spliced in:        *)
(* get_sibling and the Ref above are found through the links the earlier   *)
(* splice rewrote.                                                         *)
C32_Witness ==
    /\ Prunes
    /\ SplicedPair(last.tree, PrunedPair)
    /\ WellFormed(tree)

----------------------------------------------------------------------------
(* Properties of the assertions, checked under Spec.                       *)

(* C33: no internal assertion and no lookup fails on a board of any size   *)
(* from 1 x 1 up: no mutator call ends with the AssertionError of          *)
(* get_through or get_bent (`expected none set`, `expected no cannot_set`) *)
(* nor with the KeyError of a confirmed direction that points off the      *)
(* board.                                                                  *)
C33_NoAssertionOrLookupFails ==
    last.tag \notin {"assertion", "keyerror"}

----------------------------------------------------------------------------
(* Properties of the solved board, checked under SpecDeep.                 *)

(* C34: in every board carried by a SolvedException the confirmed edges    *)
(* form exactly one closed loop: every cell with a confirmed direction     *)
(* lies on the closed loop that raised it, so no fragment and no second    *)
(* chain of confirmed edges exists outside the loop.                       *)
C34_SolvedBoardIsOneLoop ==
    last.tag = "solved"
        => \A c \in DOMAIN last.result.cell_lines :
               last.result.cell_lines[c].is_set # {} => c \in last.loop

====
